---- MODULE Spec2Model ----
(***************************************************************************)
(* easy-dialogs: the scene graph, the transition resolver get_next_scene,  *)
(* the per-event loop of the handlers (bases.BaseHandler.default_handler   *)
(* and telegram.Handler.__call__) and the two scene storages               *)
(* (shared.AiogramBasedScenesStorage and telegram.ScenesStorage), run on   *)
(* the quiz dialog of examples/quiz_dialog_tg.py, and the declaration of a *)
(* dialog class with its registration and init pass (_DialogMeta,          *)
(* BaseRelation.init_scene, Dialog.init).                                  *)
(***************************************************************************)
EXTENDS Integers, Sequences, FiniteSets, TLC

\* ------------------------------------------------------------------------
\* Bounds of the model
\* ------------------------------------------------------------------------
MaxEvents == 3     \* events dispatched in one behaviour
MaxPasses == 4     \* passes of the loop followed for one event

\* The handler invocations that may be in flight together
Handlers == {1, 2}

\* Python's None
None == "None"

\* (chat_id, user_id) pairs: a private chat (chat = user) and a group chat
Sessions == {<<1, 1>>, <<1, 2>>}

\* The handler family in use: "bases" is bases.BaseHandler (vk.Handler) on
\* shared.AiogramBasedScenesStorage, "telegram" is telegram.Handler on
\* telegram.ScenesStorage (the defaults of the two Dialog.register).
Impls == {"bases", "telegram"}

\* The dialogs the engine is run on: the quiz of the example, the quiz with
\* a start scene that cannot stay, and the quiz with a plain (not
\* transitional) start scene and a router without the two catch-all
\* relations.  Three more dialogs have a specification of their own:
\* "guarded" (InitGuarded), "routers" (InitRouters) and "cycle" (InitCycle).
Dialogs == {"quiz", "nostay", "plain"}

\* Inputs of one event: the text of the message and the event type
Texts == {"start", "score", "repeat", "back", "4", "x"}
EventTypes == {"message", "callback_query"}

\* ------------------------------------------------------------------------
\* The scene graph (examples/quiz_dialog_tg.py)
\* ------------------------------------------------------------------------
Scenes == {"QuizUtils.start_scene", "Questions.q1", "QuizUtils.end_scene",
           "QuizUtils.score", "QuizUtils.incorrect_answer",
           "QuizUtils.game_is_not_started_scene",
           "Questions.q2", "Questions.q3", "Polls.poll",
           "Intro.intro"}

start_scene == "QuizUtils.start_scene"
q1 == "Questions.q1"
end_scene == "QuizUtils.end_scene"
score == "QuizUtils.score"
incorrect_answer == "QuizUtils.incorrect_answer"
game_is_not_started_scene == "QuizUtils.game_is_not_started_scene"
q2 == "Questions.q2"
q3 == "Questions.q3"
poll == "Polls.poll"
intro == "Intro.intro"

\* BaseDialog._initialized_scenes: full name -> scene; a scene is modelled by
\* its full name, so the registry lookup .get(name, None) is the identity on
\* registered names and None elsewhere.
initialized_scenes(name) == IF name \in Scenes THEN name ELSE None

can_stay(d, s) ==
    CASE s = start_scene -> (d # "nostay")
      [] s = score -> FALSE
      [] s = incorrect_answer -> FALSE
      [] s = game_is_not_started_scene -> FALSE
      [] OTHER -> TRUE

\* In the dialog "cycle" the end scene, whose relation leads to itself and
\* accepts every message, is transitional too.
is_transitional_scene(d, s) ==
    \/ s = start_scene /\ d # "plain"
    \/ s = end_scene /\ d = "cycle"
    \/ s = intro /\ d = "halt"

\* Scene.filters: the entry filter chain of a scene (None in the example).
\* q3 is given one: it lets in an event whose context holds the answer a
\* relation's chain put there, when the answer is right.
scene_filters(s) == IF s = q3 THEN <<"answer_is_4">> ELSE None

\* The questions q1, q2, q3 of the example are one scene here, q1, whose
\* relation leads to end_scene.
\* A relation: target, filter chain, event types, on_transition hooks.
\* The target is a scene name or a resolver function of the context.
Rel(to, fs, hooks) ==
    [to |-> to, filters |-> fs, event_types |-> {"message"}, on_transition |-> hooks]

\* A relation made with event_types=...
RelOn(to, fs, event_types, hooks) ==
    [to |-> to, filters |-> fs, event_types |-> event_types, on_transition |-> hooks]

ToScene(s) == [kind |-> "scene", name |-> s]
ToFunc(f) == [kind |-> "func", name |-> f]

relations(s) ==
    CASE s = start_scene -> << Rel(ToScene(q1), <<"true">>, <<>>) >>
      [] s = q1 -> << Rel(ToScene(end_scene), <<"text_4">>, <<"process_correct_answer">>) >>
      [] s = end_scene -> << Rel(ToScene(end_scene), <<"true">>, <<>>) >>
      [] s = q2 -> << Rel(ToScene(q3), <<"dict_answer", "has_answer">>,
                          <<"process_correct_answer">>),
                      Rel(ToScene(incorrect_answer), <<"text_4_or_x">>, <<>>) >>
      [] s = q3 -> << Rel(ToScene(end_scene), <<"text_4">>, <<"process_correct_answer">>) >>
      [] s = poll -> << RelOn(ToFunc("previous"), <<"dict_answer">>, {"callback_query"},
                              <<"process_poll_answer">>),
                        Rel(ToScene(end_scene), <<"text_4">>,
                            <<"process_correct_answer">>) >>
      [] s = intro -> << Rel(ToScene(q1), <<"text_4">>, <<>>) >>
      [] OTHER -> << >>

router_named ==
    << Rel(ToFunc("current_or_start"), <<"dict_123", "print_true", "cmd_start">>, <<>>),
       Rel(ToScene(score), <<"is_game_started", "cmd_score">>, <<>>),
       Rel(ToFunc("current"), <<"is_game_started", "cmd_repeat">>, <<>>),
       Rel(ToFunc("previous"), <<"is_game_started", "cmd_back">>,
           <<"process_move_to_previous_scene">>) >>

router_catch_all ==
    << Rel(ToScene(incorrect_answer), <<"is_game_started">>, <<>>),
       Rel(ToScene(game_is_not_started_scene), <<"is_game_not_started">>, <<>>) >>

\* The relation that starts the guarded quiz at q2
router_guarded == << Rel(ToScene(q2), <<"cmd_start">>, <<>>) >>

\* The relations that start the dialog "events" at the scene poll, whose
\* first relation is for callback queries only, and that answer every
\* callback query with the score
router_events ==
    << Rel(ToScene(poll), <<"cmd_start">>, <<>>),
       RelOn(ToScene(score), <<"true">>, {"callback_query"}, <<"process_poll_answer">>) >>

\* The relation that starts the dialog "halt" at the scene intro, a
\* transitional scene whose only relation does not accept every event; the
\* dialog has no relation that accepts whatever is left
router_halt == << Rel(ToScene(intro), <<"is_game_not_started">>, <<>>) >>

router_relations(d) ==
    CASE d = "plain" -> router_named
      [] d = "guarded" -> router_guarded \o router_named \o router_catch_all
      [] d = "events" -> router_events \o router_named \o router_catch_all
      [] d = "halt" -> router_halt \o router_named
      [] OTHER -> router_named \o router_catch_all

\* The routers of a dialog in the order they are registered in.  The dialog
\* "routers" holds the relations of the example's router in two routers.
registered_routers(d) ==
    IF d = "routers" THEN <<"named", "catch_all">> ELSE <<"router">>

relations_of_router(d, name) ==
    CASE name = "named" -> router_named
      [] name = "catch_all" -> router_catch_all
      [] OTHER -> router_relations(d)

\* BaseDialog._initialized_routers (telegram: Dialog._routers) is a Python
\* set of router objects: the order in which a loop goes through it is the
\* order of the objects' hashes, which are taken from their addresses.  It
\* is fixed while the set does not change and is one of the orders of the
\* registered routers.
VARIABLE initialized_routers

\* The orders a loop over the set of the routers rs may take
IterationOrders(rs) ==
    {o \in [1..Len(rs) -> 1..Len(rs)] : \A i, j \in 1..Len(rs) : o[i] = o[j] => i = j}

\* for router in initialized_routers: for relation in router.relations
RECURSIVE routers_relations(_, _, _)
routers_relations(d, order, i) ==
    IF i > Len(order) THEN <<>>
    ELSE relations_of_router(d, registered_routers(d)[order[i]])
         \o routers_relations(d, order, i + 1)

\* ------------------------------------------------------------------------
\* Filters
\* ------------------------------------------------------------------------
\* The result of one predicate: a value that is not a mapping, of which its
\* truth matters (None is falsy), or a mapping to merge, a set of
\* <<key, value>> items.
FBool(b) == [dict |-> FALSE, val |-> b, items |-> {}]
FDict(items) == [dict |-> TRUE, val |-> TRUE, items |-> items]

\* The keys of a set of items
Keys(items) == {p[1] : p \in items}

run_filter(f, text, kw) ==
    CASE f = "true" -> FBool(TRUE)
      [] f = "print_true" -> FBool(TRUE)
      [] f = "dict_123" -> FDict({<<"123", 123>>})
      [] f = "text_4" -> FBool(text = "4")
      [] f = "cmd_start" -> FBool(text = "start")
      [] f = "cmd_score" -> FBool(text = "score")
      [] f = "cmd_repeat" -> FBool(text = "repeat")
      [] f = "cmd_back" -> FBool(text = "back")
      [] f = "is_game_started" -> FBool(kw.current_scene # None)
      [] f = "is_game_not_started" -> FBool(kw.current_scene = None)
      [] f = "dict_answer" -> FDict({<<"answer", 4>>})
      [] f = "has_answer" -> FBool("answer" \in Keys(kw.extra))
      [] f = "answer_is_4" -> FBool("answer" \in Keys(kw.extra) /\ text = "4")
      [] f = "text_4_or_x" -> FBool(text \in {"4", "x"})
      [] f = "false" -> FBool(FALSE)
      [] f = "none" -> FBool(FALSE)                      \* returns None
      [] f = "dict_empty" -> FDict({})                   \* returns {}
      [] f = "dict_answer_5" -> FDict({<<"answer", 5>>})

\* One call of a predicate: its name, the items of the context it was called
\* with and the next scene slot of that context
Called(f, kw) == << [name |-> f, seen |-> kw.extra, next_scene |-> kw.next_scene] >>

\* A faulty update that merges nothing
update_nothing(kw, items) == kw

\* A faulty update that keeps the value of a key the context has
update_setdefault(kw, items) ==
    [kw EXCEPT !.extra = @ \cup {q \in items : q[1] \notin Keys(@)}]

\* handler_kwargs.update(result): the items of the result, and the items of
\* the context whose key the result has not
update(kw, items) ==
    [kw EXCEPT !.extra = {p \in @ : p[1] \notin Keys(items)} \cup items]

\* BaseFiltersGroup.check: predicates in order; a mapping is merged into the
\* context, a falsy result rejects.  The result carries the context as the
\* chain left it, and the calls made.
RECURSIVE check(_, _, _, _)
check(fs, i, text, kw) ==
    IF i > Len(fs) THEN [ok |-> TRUE, kw |-> kw, seen |-> <<>>]
    ELSE LET r == run_filter(fs[i], text, kw)
             rest == IF r.dict
                     THEN check(fs, i + 1, text, update(kw, r.items))
                     ELSE IF r.val THEN check(fs, i + 1, text, kw)
                          ELSE [ok |-> FALSE, kw |-> kw, seen |-> <<>>] IN
         [rest EXCEPT !.seen = Called(fs[i], kw) \o @]

\* telegram Relation.check_filters: a falsy result rejects; nothing is merged
RECURSIVE check_filters(_, _, _, _)
check_filters(fs, i, text, kw) ==
    IF i > Len(fs) THEN [ok |-> TRUE, kw |-> kw]
    ELSE IF run_filter(fs[i], text, kw).val
         THEN check_filters(fs, i + 1, text, kw)
         ELSE [ok |-> FALSE, kw |-> kw]

\* A faulty get_scene that gives the start scene when the resolver gives None
get_scene_or_start(rel, kw) ==
    IF rel.to.kind = "func"
    THEN CASE rel.to.name = "current_or_start" ->
                  (IF kw.current_scene # None THEN kw.current_scene ELSE start_scene)
           [] rel.to.name = "current" ->
                  (IF kw.current_scene # None THEN kw.current_scene ELSE start_scene)
           [] rel.to.name = "previous" ->
                  (IF kw.previous_scene # None THEN kw.previous_scene ELSE start_scene)
    ELSE rel.to.name

\* BaseRelation.get_scene: the resolver function on the context, or the
\* resolved target
get_scene(rel, kw) ==
    IF rel.to.kind = "func"
    THEN CASE rel.to.name = "current_or_start" ->
                  (IF kw.current_scene # None THEN kw.current_scene ELSE start_scene)
           [] rel.to.name = "current" -> kw.current_scene
           [] rel.to.name = "previous" -> kw.previous_scene
    ELSE rel.to.name


\* ------------------------------------------------------------------------
\* get_next_scene
\* ------------------------------------------------------------------------
\* The result of a scan: status "none" (nothing matched), "found" (a target
\* was returned, scene holds it, hooks holds the on_transition hooks that
\* ran) or "error" (an exception left get_next_scene); kw is the context as
\* the scan left it.  trace lists, for bases, the calls the scan made in
\* order: the predicates of relation chains ("filter"), the entry filters of
\* targets ("entry") and the on_transition hooks, each with the relation
\* it was called for, the keys of the context it was called with and the
\* next scene slot of the context at the time of the call.
Scan(status, scene, kw, hooks) ==
    [status |-> status, scene |-> scene, kw |-> kw, hooks |-> hooks, trace |-> <<>>]

Trace(kind, rel, seen) ==
    [j \in 1..Len(seen) |->
        [kind |-> kind, rel |-> rel, name |-> seen[j].name, seen |-> seen[j].seen,
         next_scene |-> seen[j].next_scene, owner |-> None]]

HooksTrace(rel, kw) ==
    Trace("on_transition", rel,
          [j \in 1..Len(rel.on_transition) |->
              [name |-> rel.on_transition[j], seen |-> kw.extra,
               next_scene |-> kw.next_scene]])

\* The calls tr, then the scan r
Pre(tr, r) == [r EXCEPT !.trace = tr \o @]

\* The scan r of the relations owned by o (the current scene, or a router)
Owned(o, r) == [r EXCEPT !.trace = [j \in 1..Len(@) |-> [@[j] EXCEPT !.owner = o]]]

\* A faulty entry check that calls the entry filters and lets the event in
\* whatever they answer
entry_check_ignored(nxt, text, kw) ==
    IF scene_filters(nxt) = None
    THEN [ok |-> TRUE, kw |-> kw, seen |-> <<>>]
    ELSE [check(scene_filters(nxt), 1, text, kw) EXCEPT !.ok = TRUE]

\* if next_scene.filters: next_scene.filters.check(...)
entry_check(nxt, text, kw) ==
    IF scene_filters(nxt) = None
    THEN [ok |-> TRUE, kw |-> kw, seen |-> <<>>]
    ELSE check(scene_filters(nxt), 1, text, kw)

\* A faulty test that lets a relation see the events of every type
event_matches_any(et, rel) == TRUE

\* current_event_type in relation.filters.event_types (telegram:
\* relation.event_types)
event_matches(et, rel) == et \in rel.event_types

\* A faulty relation loop that gives the next relation the context as it was
\* before the rejected relation's predicates merged their mappings
RECURSIVE scan_bases_rolls_back(_, _, _, _, _)
scan_bases_rolls_back(rels, i, et, text, kw) ==
    IF i > Len(rels) THEN Scan("none", None, kw, <<>>)
    ELSE IF ~event_matches(et, rels[i])
         THEN scan_bases_rolls_back(rels, i + 1, et, text, kw)
         ELSE LET c == check(rels[i].filters, 1, text, kw)
                  tc == Trace("filter", rels[i], c.seen) IN
              IF ~c.ok THEN Pre(tc, scan_bases_rolls_back(rels, i + 1, et, text, kw))
              ELSE LET nxt == get_scene(rels[i], c.kw) IN
                   IF nxt = None
                   THEN Pre(tc, Scan("error", None, c.kw, <<>>))
                   ELSE LET e == entry_check(nxt, text, c.kw)
                            te == Trace("entry", rels[i], e.seen) IN
                        IF ~e.ok
                        THEN Pre(tc \o te,
                                 scan_bases_rolls_back(rels, i + 1, et, text, kw))
                        ELSE Pre(tc \o te \o HooksTrace(rels[i], e.kw),
                                 Scan("found", nxt, e.kw, rels[i].on_transition))

\* One relation loop of bases.BaseScenesStorage.get_next_scene
RECURSIVE scan_bases(_, _, _, _, _)
scan_bases(rels, i, et, text, kw) ==
    IF i > Len(rels) THEN Scan("none", None, kw, <<>>)
    ELSE IF ~event_matches(et, rels[i])
         THEN scan_bases(rels, i + 1, et, text, kw)
         ELSE LET c == check(rels[i].filters, 1, text, kw)
                  tc == Trace("filter", rels[i], c.seen) IN
              IF ~c.ok THEN Pre(tc, scan_bases(rels, i + 1, et, text, c.kw))
              ELSE LET nxt == get_scene(rels[i], c.kw) IN
                   IF nxt = None
                   THEN Pre(tc, Scan("error", None, c.kw, <<>>))   \* None.filters
                   ELSE LET e == entry_check(nxt, text, c.kw)
                            te == Trace("entry", rels[i], e.seen) IN
                        IF ~e.ok
                        THEN Pre(tc \o te, scan_bases(rels, i + 1, et, text, e.kw))
                        ELSE Pre(tc \o te \o HooksTrace(rels[i], e.kw),
                                 Scan("found", nxt, e.kw, rels[i].on_transition))

\* One relation loop of telegram.BaseScenesStorage.get_next_scene: the
\* on_transition hooks run before the target is resolved, and there are no
\* entry filters.
RECURSIVE scan_telegram(_, _, _, _, _)
scan_telegram(rels, i, et, text, kw) ==
    IF i > Len(rels) THEN Scan("none", None, kw, <<>>)
    ELSE IF ~event_matches(et, rels[i])
         THEN scan_telegram(rels, i + 1, et, text, kw)
         ELSE IF ~check_filters(rels[i].filters, 1, text, kw).ok
              THEN scan_telegram(rels, i + 1, et, text, kw)
              ELSE Scan("found", get_scene(rels[i], kw), kw, rels[i].on_transition)

\* The relations rels in their declaration order
scan(im, rels, et, text, kw) ==
    IF im = "bases" THEN scan_bases(rels, 1, et, text, kw)
    ELSE scan_telegram(rels, 1, et, text, kw)

\* A faulty get_next_scene that asks the routers only when there is no
\* current scene
get_next_scene_without_fallback(im, d, cur, et, text, kw) ==
    IF cur # None THEN Owned("scene", scan(im, relations(cur), et, text, kw))
    ELSE Owned("router", scan(im, router_relations(d), et, text, kw))

\* A faulty get_next_scene that scans the routers whatever the relations of
\* the current scene gave, and prefers what the routers return
get_next_scene_routers_always(im, d, cur, et, text, kw) ==
    LET own == IF cur # None
               THEN Owned("scene", scan(im, relations(cur), et, text, kw))
               ELSE Scan("none", None, kw, <<>>)
        routed == Pre(own.trace,
                      Owned("router", scan(im, router_relations(d), et, text, own.kw))) IN
    IF routed.status = "none" THEN Pre(routed.trace, own) ELSE routed

\* A faulty get_next_scene that goes through the relations of the current
\* scene from the last to the first
get_next_scene_last_first(im, d, cur, et, text, kw) ==
    LET rels == relations(cur)
        reversed == [j \in 1..Len(rels) |-> rels[Len(rels) + 1 - j]]
        own == IF cur # None
               THEN Owned("scene", scan(im, reversed, et, text, kw))
               ELSE Scan("none", None, kw, <<>>) IN
    IF own.status # "none" THEN own
    ELSE Pre(own.trace, Owned("router", scan(im, router_relations(d), et, text, own.kw)))

\* The relations of the current scene first, the routers as the fallback
get_next_scene(im, d, cur, et, text, kw) ==
    LET own == IF cur # None
               THEN Owned("scene", scan(im, relations(cur), et, text, kw))
               ELSE Scan("none", None, kw, <<>>) IN
    IF own.status # "none" THEN own
    ELSE Pre(own.trace,
             Owned("router", scan(im, routers_relations(d, initialized_routers, 1),
                                  et, text, own.kw)))

\* ------------------------------------------------------------------------
\* The scene storages over aiogram's storage
\* ------------------------------------------------------------------------
\* Python's seq[:-1]
ButLast(h) == IF h = <<>> THEN <<>> ELSE SubSeq(h, 1, Len(h) - 1)

Last(h) == h[Len(h)]

\* storage.get_data(chat, user).get(data_key, []); the update_data call of the
\* shared storage passes no data and changes nothing
get_scenes_history(st, s) == st[s]

\* A faulty get_current_scene that takes the first element of the history
get_current_scene_first(st, s) ==
    LET scene_ids == get_scenes_history(st, s) IN
    IF scene_ids # <<>> THEN initialized_scenes(scene_ids[1]) ELSE None

\* BaseScenesStorage.get_current_scene
get_current_scene(st, s) ==
    LET scene_ids == get_scenes_history(st, s) IN
    IF scene_ids # <<>> THEN initialized_scenes(scene_ids[Len(scene_ids)]) ELSE None

\* A faulty get_previous_scene that takes the last element but two
get_previous_scene_third_last(st, s) ==
    LET scenes_history == get_scenes_history(st, s) IN
    IF Len(scenes_history) >= 3
    THEN initialized_scenes(scenes_history[Len(scenes_history) - 2]) ELSE None

\* BaseScenesStorage.get_previous_scene: the history holds names the
\* dialog has registered
get_previous_scene(st, s) ==
    LET scenes_history == get_scenes_history(st, s) IN
    IF Len(scenes_history) >= 2
    THEN initialized_scenes(scenes_history[Len(scenes_history) - 1]) ELSE None

\* update_scenes_history: storage.update_data(chat=chat_id, user=user_id, ...)
update_scenes_history(st, s, new_scenes_history) ==
    [st EXCEPT ![s] = new_scenes_history]

\* A faulty set_current_scene that keeps only the current scene
only_current(scenes_history, full_name) ==
    IF scenes_history # <<>> /\ Last(scenes_history) = full_name
    THEN scenes_history
    ELSE <<full_name>>

\* A faulty set_current_scene that appends whatever the last name is
append_always(scenes_history, full_name) == Append(scenes_history, full_name)

\* The list set_current_scene computes from the history it read
append_if_different(scenes_history, full_name) ==
    IF scenes_history # <<>> /\ Last(scenes_history) = full_name
    THEN scenes_history
    ELSE Append(scenes_history, full_name)

\* The address set_current_scene writes with update_data.  The shared storage
\* passes chat=chat_id, user=user_id.  telegram.ScenesStorage passes
\* chat=chat_id, user_id=user_id: user is not given, and aiogram's
\* check_address then takes user = chat.
set_address(im, s) == IF im = "bases" THEN s ELSE <<s[1], s[1]>>

\* set_current_scene as one call: get_data, append, update_data
set_current_scene(im, st, s, full_name) ==
    [st EXCEPT ![set_address(im, s)] =
        append_if_different(get_scenes_history(st, s), full_name)]

\* on_transition hooks of the example.  process_move_to_previous_scene
\* replaces the history by the history without its last element.
run_hook(hook, st, s) ==
    IF hook = "process_move_to_previous_scene"
    THEN update_scenes_history(st, s, ButLast(get_scenes_history(st, s)))
    ELSE st

RECURSIVE run_hooks(_, _, _, _)
run_hooks(hooks, i, st, s) ==
    IF i > Len(hooks) THEN st
    ELSE run_hooks(hooks, i + 1, run_hook(hooks[i], st, s), s)


\* ------------------------------------------------------------------------
\* Declaration of a dialog class, registration and the init pass
\* ------------------------------------------------------------------------
\* One dialog class D is declared: its body makes the scene held by the
\* attribute a, then a relation, then the scene held by the attribute b,
\* which owns the relation.  A string is the sequence of its parts between
\* dots: "D.a" is <<"D", "a">>, "a" is <<"a">>, the empty string is <<"">>;
\* <<>> stands for None where a string may be given.
Objs == {"a", "b"}
ClassName == "D"
NoStr == <<>>
NameArgs == {NoStr, <<"a">>}        \* Scene(name=...)
NamespaceArgs == {NoStr, <<"D">>}   \* Scene(namespace=...)
RouterNamespaceArgs == {NoStr, <<"">>, <<"D">>}   \* Router(namespace=...)
\* The namespace _DialogMeta gives: the class name when the class has no
\* Meta of its own with a namespace, else Meta.namespace, whose default in
\* BaseDialog.Meta is the empty string
MetaNamespaces == {<<"D">>, <<"">>}

\* A target: a Scene object, a string, a FutureScene or a callable
Target(kind, obj, class_name, str) ==
    [kind |-> kind, obj |-> obj, class_name |-> class_name, str |-> str]
ToObj(o) == Target("scene", o, None, NoStr)
ToStr(str) == Target("str", None, None, str)
ToFuture(class_name, scene_name) == Target("future", None, class_name, scene_name)
ToCallable == Target("callable", None, None, NoStr)
NoTarget == Target("none", None, None, NoStr)

\* The targets the relation is made with
Targets ==
    {ToObj("a"), ToCallable,
     ToStr(<<"a">>), ToStr(<<"D", "a">>), ToStr(<<"zz">>), ToStr(<<"">>),
     ToFuture(None, <<"a">>), ToFuture(None, <<"zz">>),
     ToFuture("D", <<"a">>), ToFuture("E", <<"a">>), ToFuture("D", <<"zz">>)}

VARIABLES
    scenes,               \* Scene object -> made, name, namespace
    relation,             \* the fields of the relation
    scenes_registry,      \* BaseDialog._initialized_scenes: full name -> Scene
    initialized_dialogs,  \* the keys of BaseDialog._initialized_dialogs
    phase,                \* how far declaration, init and registration are
    init_error,           \* the exception that ended them
    meta_namespace,       \* the namespace of the class D
    router,               \* the Router object held by the attribute r
    routers_registry      \* BaseDialog._initialized_routers

router_vars == <<meta_namespace, router, routers_registry>>

registry_vars ==
    <<scenes, relation, scenes_registry, initialized_dialogs, phase, init_error, router_vars>>

\* str(x) in an f-string: None gives "None"
Fmt(str) == IF str = NoStr THEN <<"None">> ELSE str

\* BaseScene.full_name: f'{self.namespace}.{self.name}'
full_name(sc) == Fmt(sc.namespace) \o Fmt(sc.name)

NoScene == [made |-> FALSE, name |-> NoStr, namespace |-> NoStr]
NoRouter == [made |-> FALSE, namespace |-> NoStr]
NoRelation ==
    [made |-> FALSE, to |-> NoTarget, to_scene |-> None, to_scene_name |-> NoStr,
     get_scene_func |-> None, future_scene |-> NoTarget]

\* BaseRelation.__init__: the four kinds of target.  The name of a Scene
\* target is read when the relation is made.
new_relation(to, scs) ==
    CASE to.kind = "scene" ->
            [made |-> TRUE, to |-> to, to_scene |-> to.obj,
             to_scene_name |-> full_name(scs[to.obj]),
             get_scene_func |-> None, future_scene |-> NoTarget]
      [] to.kind = "future" ->
            [made |-> TRUE, to |-> to, to_scene |-> None, to_scene_name |-> NoStr,
             get_scene_func |-> None, future_scene |-> to]
      [] to.kind = "str" ->
            [made |-> TRUE, to |-> to, to_scene |-> None, to_scene_name |-> to.str,
             get_scene_func |-> None, future_scene |-> NoTarget]
      [] to.kind = "callable" ->
            [made |-> TRUE, to |-> to, to_scene |-> None, to_scene_name |-> NoStr,
             get_scene_func |-> "callable", future_scene |-> NoTarget]

\* Python's truth value of an Optional[str]
Truthy(str) == str # NoStr /\ str # <<"">>

\* name if it has a dot, f"{namespace}.{name}" if it has none
qualified(namespace, name) == IF Len(name) = 1 THEN Fmt(namespace) \o name ELSE name

\* initialized_scenes[name], KeyError turned into RuntimeError
lookup(rel, name, registry) ==
    IF name \in DOMAIN registry
    THEN [rel |-> [rel EXCEPT !.to_scene_name = name, !.to_scene = registry[name]],
          error |-> None]
    ELSE [rel |-> [rel EXCEPT !.to_scene_name = name], error |-> "RuntimeError"]

\* getattr(cls, scene_name) on the class D: the scene the attribute holds
class_attribute(scene_name) ==
    IF Len(scene_name) = 1 /\ scene_name[1] \in Objs THEN scene_name[1] ELSE None

\* BaseRelation.init_scene
init_scene(rel, namespace, registry, dialogs, scs) ==
    IF Truthy(rel.to_scene_name)
    THEN lookup(rel, qualified(namespace, rel.to_scene_name), registry)
    ELSE IF rel.to_scene # None
    THEN [rel |-> [rel EXCEPT !.to_scene_name = full_name(scs[rel.to_scene])],
          error |-> None]
    ELSE IF rel.future_scene # NoTarget
    THEN IF rel.future_scene.class_name = None
         THEN lookup(rel, qualified(namespace, rel.future_scene.str), registry)
         ELSE IF rel.future_scene.class_name \notin dialogs
         THEN [rel |-> rel, error |-> "RuntimeError"]
         ELSE IF class_attribute(rel.future_scene.str) = None
         THEN [rel |-> rel, error |-> "AttributeError"]
         ELSE LET scene == class_attribute(rel.future_scene.str) IN
              [rel |-> [rel EXCEPT !.to_scene = scene,
                                   !.to_scene_name = full_name(scs[scene])],
               error |-> None]
    ELSE [rel |-> rel, error |-> None]

\* ------------------------------------------------------------------------
\* State
\* ------------------------------------------------------------------------
VARIABLES
    impl,             \* the handler family in use
    dialog,           \* the dialog the engine runs on
    data,             \* aiogram storage: address -> scenes history
    events,           \* events dispatched so far
    pc,               \* per handler invocation: its position
    sess,             \* its (chat_id, user_id)
    text,             \* the text of its event
    event_type,       \* the type of its event
    previous_scene,   \* the locals of the handler
    current_scene,
    next_scene,
    handler_kwargs,   \* the context shared with filters, hooks and the view
    scenes_history,   \* the list held by set_current_scene between read and write
    passes,           \* get_next_scene calls made for the event
    log,              \* hooks and views run for the event, in order
    calls,            \* the same with the pass and the context of each call
    checking,         \* a call of BaseFiltersGroup.check: arguments and result
    viewing,          \* a call of a scene's view: hooks, arguments and result
    result            \* what the handler gave its caller

vars == <<impl, dialog, initialized_routers, scenes, relation, scenes_registry,
          initialized_dialogs, phase, init_error, meta_namespace, router,
          routers_registry, data, events, pc, sess, text, event_type,
          previous_scene, current_scene, next_scene, handler_kwargs,
          scenes_history, passes, log, calls, checking, viewing, result>>

config == <<impl, dialog, initialized_routers, registry_vars, checking, viewing>>

EmptyKwargs ==
    [previous_scene |-> None, current_scene |-> None, next_scene |-> None, extra |-> {}]

\* The result of check before it returned
NoResult == [ok |-> FALSE, kw |-> EmptyKwargs, seen |-> <<>>]

\* No chain under check
NoCheck ==
    [filters_to_check |-> [et \in {"message", "callback_query"} |-> <<>>],
     event_type |-> "message", kw |-> EmptyKwargs, done |-> FALSE, result |-> NoResult]

\* No history stored, no event dispatched, no handler running
Idle ==
    /\ data = [s \in Sessions |-> <<>>]
    /\ events = 0
    /\ pc = [h \in Handlers |-> "idle"]
    /\ sess = [h \in Handlers |-> <<1, 1>>]
    /\ text = [h \in Handlers |-> "x"]
    /\ event_type = [h \in Handlers |-> "message"]
    /\ previous_scene = [h \in Handlers |-> None]
    /\ current_scene = [h \in Handlers |-> None]
    /\ next_scene = [h \in Handlers |-> None]
    /\ handler_kwargs = [h \in Handlers |-> EmptyKwargs]
    /\ scenes_history = [h \in Handlers |-> <<>>]
    /\ passes = [h \in Handlers |-> 0]
    /\ log = [h \in Handlers |-> <<>>]
    /\ calls = [h \in Handlers |-> <<>>]
    /\ result = [h \in Handlers |-> "pending"]

\* No view under call
NoView ==
    [on_pre_view |-> <<>>, on_post_view |-> <<>>, returns |-> None, kwargs |-> {},
     done |-> FALSE, calls |-> <<>>, result |-> None]

Start == Idle /\ checking = NoCheck /\ viewing = NoView

\* The dialogs with one router
OneRouter == initialized_routers = <<1>>

\* Before the body of the class D runs
Undeclared ==
    /\ scenes = [o \in Objs |-> NoScene]
    /\ relation = NoRelation
    /\ scenes_registry = [n \in {} |-> None]
    /\ initialized_dialogs = {}
    /\ init_error = None
    /\ router = NoRouter
    /\ routers_registry = {}

\* The handlers run after Dialog.register; the registry they look scenes
\* up in is initialized_scenes, and the class D is not part of their dialog.
Registered == Undeclared /\ phase = "handling" /\ meta_namespace = <<ClassName>>

Init ==
    /\ impl \in Impls
    /\ dialog \in Dialogs
    /\ OneRouter
    /\ Registered
    /\ Start

\* The quiz whose q2 has two relations, the first to q3, a scene with an
\* entry filter chain, on bases (telegram has no entry filters)
InitGuarded ==
    /\ impl = "bases"
    /\ dialog = "guarded"
    /\ OneRouter
    /\ Registered
    /\ Start

\* The quiz whose end scene is transitional: a cycle of one scene
InitCycle ==
    /\ impl = "bases"
    /\ dialog = "cycle"
    /\ OneRouter
    /\ Registered
    /\ Start

\* The quiz with two routers, in each order a loop over their set may take
InitRouters ==
    /\ impl \in Impls
    /\ dialog = "routers"
    /\ initialized_routers \in IterationOrders(registered_routers(dialog))
    /\ Registered
    /\ Start

InFlight(h) == pc[h] # "idle"

\* ------------------------------------------------------------------------
\* The handler, one action per stretch between two awaits on the storage
\* ------------------------------------------------------------------------
\* The dispatcher calls the handler with an event; the handler reads the
\* previous scene.  vk registers the handler for messages only; an event
\* that is not a message carries no text.  The dispatcher has the handler
\* from Dialog.register on.
Call(h, s, t, et) ==
    /\ phase = "handling"
    /\ pc[h] = "idle"
    /\ events < MaxEvents
    /\ \A g \in Handlers : g < h => InFlight(g)
    /\ impl = "bases" => et = "message"
    /\ et # "message" => t = "x"
    /\ events' = events + 1
    /\ sess' = [sess EXCEPT ![h] = s]
    /\ text' = [text EXCEPT ![h] = t]
    /\ event_type' = [event_type EXCEPT ![h] = et]
    /\ previous_scene' = [previous_scene EXCEPT ![h] = get_previous_scene(data, s)]
    /\ pc' = [pc EXCEPT ![h] = "get_current_scene"]
    /\ UNCHANGED <<config, data, current_scene, next_scene, handler_kwargs,
                   scenes_history, passes, log, calls, result>>

\* The caller that admits an event only when no event of the same session is
\* in flight
CallOne(h, s, t, et) ==
    /\ \A g \in Handlers : InFlight(g) => sess[g] # s
    /\ Call(h, s, t, et)

GetCurrentScene(h) ==
    /\ pc[h] = "get_current_scene"
    /\ current_scene' = [current_scene EXCEPT ![h] = get_current_scene(data, sess[h])]
    /\ pc' = [pc EXCEPT ![h] = "get_next_scene"]
    /\ UNCHANGED <<config, data, events, sess, text, event_type, previous_scene,
                   next_scene, handler_kwargs, scenes_history, passes, log, calls,
                   result>>

\* The context at the top of a pass
PassKwargs(h) ==
    [handler_kwargs[h] EXCEPT !.previous_scene = previous_scene[h],
                              !.current_scene = current_scene[h],
                              !.next_scene = None]

Resolved(h) ==
    get_next_scene(impl, dialog, current_scene[h], event_type[h], text[h], PassKwargs(h))

\* What the handler gives its caller when get_next_scene returned None:
\* bases returns self.skip_handler(), which vk.Handler defines as pass;
\* telegram raises aiogram's SkipHandler.
skip_handler(im) == IF im = "bases" THEN "None" ELSE "SkipHandler"

HookLog(hooks) == [i \in 1..Len(hooks) |-> <<"on_transition", hooks[i]>>]

\* One call of a hook, of a view or of set_current_scene: what is called, in
\* which pass of the loop, and the three scene slots of the context it is
\* called with
CallOf(kind, name, p, kw) ==
    [kind |-> kind, name |-> name, pass |-> p,
     previous_scene |-> kw.previous_scene,
     current_scene |-> kw.current_scene,
     next_scene |-> kw.next_scene]

\* The context the on_transition hooks are called with: bases passes a copy
\* of the context merged with the next scene, telegram the context itself
transition_kwargs(im, kw, nxt) ==
    IF im = "bases" THEN [kw EXCEPT !.next_scene = nxt] ELSE kw

\* A loop over the on_transition hooks that goes through them twice
HookCalls_twice(im, hooks, p, kw, nxt) ==
    [i \in 1..(2 * Len(hooks)) |->
        CallOf("on_transition", hooks[((i - 1) % Len(hooks)) + 1], p,
               transition_kwargs(im, kw, nxt))]

\* for on_transition_function in relation.on_transition: run_function(...)
HookCalls(im, hooks, p, kw, nxt) ==
    [i \in 1..Len(hooks) |->
        CallOf("on_transition", hooks[i], p, transition_kwargs(im, kw, nxt))]

\* A context that keeps the next scene exposed after the on_exit hooks
reset_nothing(kw) == kw

\* handler_kwargs[KEY_FOR_NEXT_SCENES] = None, after the on_exit hooks
reset_kwargs(kw) == [kw EXCEPT !.next_scene = None]

\* handler_kwargs[KEY_FOR_NEXT_SCENES] = next_scene, before the on_exit hooks
exit_kwargs(kw, nxt) == [kw EXCEPT !.next_scene = nxt]

\* The on_exit hooks of the current scene, if there is one
ExitCalls(cur, p, kw, nxt) ==
    IF cur # None THEN << CallOf("on_exit", cur, p, exit_kwargs(kw, nxt)) >> ELSE <<>>

\* The context as the on_exit stretch leaves it
after_exit(cur, kw, nxt) ==
    IF cur # None THEN reset_kwargs(exit_kwargs(kw, nxt)) ELSE kw

\* Faulty guards of the history update: one that forgets can_stay, one that
\* tests can_stay of the current scene, one that needs a current scene
must_set_without_can_stay(d, cur, nxt) == cur # nxt

must_set_can_stay_of_current(d, cur, nxt) == can_stay(d, cur) /\ cur # nxt

must_set_needs_current(d, cur, nxt) == can_stay(d, nxt) /\ cur # nxt /\ cur # None

\* Two more faulty guards: one that writes the history also when the scene
\* entered is the current one, one that writes it for every scene the loop
\* stops at
must_set_even_same(d, cur, nxt) == can_stay(d, nxt)

must_set_where_it_stops(d, cur, nxt) ==
    (can_stay(d, nxt) \/ ~is_transitional_scene(d, nxt)) /\ cur # nxt

\* The guard of the history update
must_set(d, cur, nxt) == can_stay(d, nxt) /\ cur # nxt

\* The rest of a pass once get_next_scene has returned r: the handler leaves
\* when there is no next scene; else the on_exit hooks of the current scene
\* run with next_scene exposed meanwhile.
AfterGetNextScene(h, r) ==
    /\ passes' = [passes EXCEPT ![h] = @ + 1]
    /\ data' = run_hooks(r.hooks, 1, data, sess[h])
    /\ next_scene' = [next_scene EXCEPT ![h] = r.scene]
    /\ IF r.status = "error"
       THEN /\ pc' = [pc EXCEPT ![h] = "done"]
            /\ result' = [result EXCEPT ![h] = "AttributeError"]
            /\ handler_kwargs' = [handler_kwargs EXCEPT ![h] = r.kw]
            /\ log' = [log EXCEPT ![h] = @ \o HookLog(r.hooks)]
            /\ calls' = [calls EXCEPT ![h] =
                          @ \o HookCalls(impl, r.hooks, passes'[h], r.kw, r.scene)]
       ELSE IF r.scene = None
       THEN /\ pc' = [pc EXCEPT ![h] = "done"]
            /\ result' = [result EXCEPT ![h] = skip_handler(impl)]
            /\ handler_kwargs' = [handler_kwargs EXCEPT ![h] = r.kw]
            /\ log' = [log EXCEPT ![h] = @ \o HookLog(r.hooks)]
            /\ calls' = [calls EXCEPT ![h] =
                          @ \o HookCalls(impl, r.hooks, passes'[h], r.kw, r.scene)]
       ELSE /\ pc' = [pc EXCEPT ![h] =
                        IF must_set(dialog, current_scene[h], r.scene)
                        THEN "set_current_scene" ELSE "on_enter"]
            /\ handler_kwargs' = [handler_kwargs EXCEPT ![h] =
                                    after_exit(current_scene[h], r.kw, r.scene)]
            /\ log' = [log EXCEPT ![h] =
                        @ \o HookLog(r.hooks) \o
                        (IF current_scene[h] # None
                         THEN << <<"on_exit", current_scene[h]>> >> ELSE <<>>)]
            /\ calls' = [calls EXCEPT ![h] =
                          @ \o HookCalls(impl, r.hooks, passes'[h], r.kw, r.scene)
                            \o ExitCalls(current_scene[h], passes'[h], r.kw, r.scene)]
            /\ UNCHANGED result

\* The top of a pass: the three context slots are set and get_next_scene runs
\* (with the on_transition hooks of the chosen relation)
GetNextScene(h) ==
    /\ pc[h] = "get_next_scene"
    /\ passes[h] < MaxPasses
    /\ AfterGetNextScene(h, Resolved(h))
    /\ UNCHANGED <<config, events, sess, text, event_type, previous_scene,
                   current_scene, scenes_history>>

\* set_current_scene, first half: get_data and the append
SetRead(h) ==
    /\ pc[h] = "set_current_scene"
    /\ scenes_history' = [scenes_history EXCEPT ![h] =
          append_if_different(get_scenes_history(data, sess[h]), next_scene[h])]
    /\ pc' = [pc EXCEPT ![h] = "update_data"]
    /\ UNCHANGED <<config, data, events, sess, text, event_type, previous_scene,
                   current_scene, next_scene, handler_kwargs, passes, log, calls,
                   result>>

\* A faulty second half that reads the history again and appends to it, as
\* if set_current_scene held a lock on the session
SetWriteLocked(h) ==
    /\ pc[h] = "update_data"
    /\ data' = [data EXCEPT ![set_address(impl, sess[h])] =
          append_if_different(get_scenes_history(data, sess[h]), next_scene[h])]
    /\ calls' = [calls EXCEPT ![h] =
          Append(@, CallOf("set_current_scene", next_scene[h], passes[h],
                           handler_kwargs[h]))]
    /\ pc' = [pc EXCEPT ![h] = "on_enter"]
    /\ UNCHANGED <<config, events, sess, text, event_type, previous_scene,
                   current_scene, next_scene, handler_kwargs, scenes_history,
                   passes, log, result>>

\* set_current_scene, second half: update_data
SetWrite(h) ==
    /\ pc[h] = "update_data"
    /\ data' = [data EXCEPT ![set_address(impl, sess[h])] = scenes_history[h]]
    /\ calls' = [calls EXCEPT ![h] =
          Append(@, CallOf("set_current_scene", next_scene[h], passes[h],
                           handler_kwargs[h]))]
    /\ pc' = [pc EXCEPT ![h] = "on_enter"]
    /\ UNCHANGED <<config, events, sess, text, event_type, previous_scene,
                   current_scene, next_scene, handler_kwargs, scenes_history,
                   passes, log, result>>

\* A faulty end of a pass with a bound of two passes on the loop
loop_again_bounded(d, nxt) ==
    is_transitional_scene(d, nxt) /\ \A h \in Handlers : passes[h] < 2

\* A faulty end of a pass that always breaks
loop_again_never(d, nxt) == FALSE

\* The end of a pass: break unless the scene entered is transitional
loop_again(d, nxt) == is_transitional_scene(d, nxt)

\* A context whose two scene slots are left as the top of the pass set them
enter_kwargs_stale(kw, cur, nxt) == kw

\* handler_kwargs[KEY_FOR_PREVIOUS_SCENES] = current_scene and
\* handler_kwargs[KEY_FOR_CURRENT_SCENES] = next_scene, before the on_enter hooks
enter_kwargs(kw, cur, nxt) ==
    [kw EXCEPT !.previous_scene = cur, !.current_scene = nxt]

\* A view that runs before the on_enter hooks of its scene
view_calls_view_first(nxt, p, kw) ==
    << CallOf("on_pre_view", nxt, p, kw), CallOf("view", nxt, p, kw),
       CallOf("on_post_view", nxt, p, kw), CallOf("on_enter", nxt, p, kw) >>

\* The on_enter hooks of the next scene, then its view, which _pre_view and
\* _post_view wrapped: on_pre_view hooks, the view function, on_post_view hooks
view_calls(nxt, p, kw) ==
    << CallOf("on_enter", nxt, p, kw), CallOf("on_pre_view", nxt, p, kw),
       CallOf("view", nxt, p, kw), CallOf("on_post_view", nxt, p, kw) >>

\* on_enter hooks and the view of the next scene, then the end of the pass
EnterView(h) ==
    /\ pc[h] = "on_enter"
    /\ handler_kwargs' = [handler_kwargs EXCEPT ![h] =
                            enter_kwargs(@, current_scene[h], next_scene[h])]
    /\ log' = [log EXCEPT ![h] =
                 @ \o << <<"on_enter", next_scene[h]>>, <<"view", next_scene[h]>> >>]
    /\ calls' = [calls EXCEPT ![h] =
                   @ \o view_calls(next_scene[h], passes[h], handler_kwargs'[h])]
    /\ IF ~loop_again(dialog, next_scene[h])
       THEN /\ pc' = [pc EXCEPT ![h] = "done"]
            /\ result' = [result EXCEPT ![h] = "None"]
            /\ UNCHANGED <<previous_scene, current_scene>>
       ELSE /\ pc' = [pc EXCEPT ![h] = "get_next_scene"]
            /\ previous_scene' = [previous_scene EXCEPT ![h] = current_scene[h]]
            /\ current_scene' = [current_scene EXCEPT ![h] = next_scene[h]]
            /\ UNCHANGED result
    /\ UNCHANGED <<config, data, events, sess, text, event_type, next_scene,
                   scenes_history, passes>>

\* The caller takes the result and the frame of the call is gone
Return(h) ==
    /\ pc[h] = "done"
    /\ pc' = [pc EXCEPT ![h] = "idle"]
    /\ sess' = [sess EXCEPT ![h] = <<1, 1>>]
    /\ text' = [text EXCEPT ![h] = "x"]
    /\ event_type' = [event_type EXCEPT ![h] = "message"]
    /\ previous_scene' = [previous_scene EXCEPT ![h] = None]
    /\ current_scene' = [current_scene EXCEPT ![h] = None]
    /\ next_scene' = [next_scene EXCEPT ![h] = None]
    /\ handler_kwargs' = [handler_kwargs EXCEPT ![h] = EmptyKwargs]
    /\ scenes_history' = [scenes_history EXCEPT ![h] = <<>>]
    /\ passes' = [passes EXCEPT ![h] = 0]
    /\ log' = [log EXCEPT ![h] = <<>>]
    /\ calls' = [calls EXCEPT ![h] = <<>>]
    /\ result' = [result EXCEPT ![h] = "pending"]
    /\ UNCHANGED <<config, data, events>>

Step(h) ==
    \/ GetCurrentScene(h)
    \/ GetNextScene(h)
    \/ SetRead(h)
    \/ SetWrite(h)
    \/ EnterView(h)
    \/ Return(h)

\* One event per session at a time
Next ==
    \E h \in Handlers :
        \/ \E s \in Sessions, t \in Texts, et \in EventTypes : CallOne(h, s, t, et)
        \/ Step(h)

Spec == Init /\ [][Next]_vars

SpecGuarded == InitGuarded /\ [][Next]_vars

SpecRouters == InitRouters /\ [][Next]_vars

SpecCycle == InitCycle /\ [][Next]_vars

\* The dialog whose transitional scene intro may leave an event without a
\* next scene, on the shared storage
InitHalt ==
    /\ impl = "bases"
    /\ dialog = "halt"
    /\ OneRouter
    /\ Registered
    /\ Start

SpecHalt == InitHalt /\ [][Next]_vars

\* A dialog that finds histories in the storage: the storage outlives the
\* process, and every list of names of scenes that can stay is a history the
\* engine and the hooks of a dialog can have left there
MaxHistory == 3

Histories == UNION {[1..n -> {start_scene, q1, end_scene}] : n \in 0..MaxHistory}

InitStored ==
    /\ impl = "bases"
    /\ dialog = "quiz"
    /\ OneRouter
    /\ Registered
    /\ checking = NoCheck
    /\ viewing = NoView
    /\ \E stored \in Histories :
          data = [s \in Sessions |-> IF s = <<1, 1>> THEN stored ELSE <<>>]
    /\ events = 0
    /\ pc = [h \in Handlers |-> "idle"]
    /\ sess = [h \in Handlers |-> <<1, 1>>]
    /\ text = [h \in Handlers |-> "x"]
    /\ event_type = [h \in Handlers |-> "message"]
    /\ previous_scene = [h \in Handlers |-> None]
    /\ current_scene = [h \in Handlers |-> None]
    /\ next_scene = [h \in Handlers |-> None]
    /\ handler_kwargs = [h \in Handlers |-> EmptyKwargs]
    /\ scenes_history = [h \in Handlers |-> <<>>]
    /\ passes = [h \in Handlers |-> 0]
    /\ log = [h \in Handlers |-> <<>>]
    /\ calls = [h \in Handlers |-> <<>>]
    /\ result = [h \in Handlers |-> "pending"]

\* The events one after another: the dispatcher calls the handler again when
\* it has returned
NextStored ==
    \/ \E s \in Sessions, t \in Texts, et \in EventTypes : CallOne(1, s, t, et)
    \/ Step(1)

SpecStored == InitStored /\ [][NextStored]_vars

\* The quiz that starts at the scene poll and has relations for callback
\* queries only
InitEvents ==
    /\ impl \in Impls
    /\ dialog = "events"
    /\ OneRouter
    /\ Registered
    /\ Start

SpecEvents == InitEvents /\ [][Next]_vars

\* Events of one session may be in flight together
NextRace ==
    \E h \in Handlers :
        \/ \E s \in Sessions, t \in Texts, et \in EventTypes : Call(h, s, t, et)
        \/ Step(h)

SpecRace == Init /\ [][NextRace]_vars

\* ------------------------------------------------------------------------
\* Exceptions of the predicates, the hooks and the view
\* ------------------------------------------------------------------------
\* default_handler, get_next_scene, run_function and the wrappers of the
\* view have no try around the calls they make: an exception of a called
\* function ends the handler where it is.  The caller gets the exception,
\* named here after the kind of call that raised it.
ExceptionOf(kind) ==
    CASE kind = "filter" -> "Exception of a predicate"
      [] kind = "on_exit" -> "Exception of on_exit"
      [] kind = "on_enter" -> "Exception of on_enter"
      [] kind = "on_pre_view" -> "Exception of on_pre_view"
      [] kind = "view" -> "Exception of view"
      [] kind = "on_post_view" -> "Exception of on_post_view"

Exceptions ==
    {ExceptionOf(k) : k \in {"filter", "on_exit", "on_enter", "on_pre_view", "view",
                             "on_post_view"}}

\* Calls that go on after the call k raised
raised_calls_go_on(nxt, p, kw, k) == view_calls(nxt, p, kw)

\* The calls made when call k of the on_enter hooks and the view raises: those
\* before it, and it
raised_calls(nxt, p, kw, k) == SubSeq(view_calls(nxt, p, kw), 1, k)

\* The first predicate get_next_scene calls raises
FilterRaises(h) ==
    /\ pc[h] = "get_next_scene"
    /\ passes[h] < MaxPasses
    /\ Resolved(h).trace # <<>>
    /\ passes' = [passes EXCEPT ![h] = @ + 1]
    /\ handler_kwargs' = [handler_kwargs EXCEPT ![h] = PassKwargs(h)]
    /\ pc' = [pc EXCEPT ![h] = "done"]
    /\ result' = [result EXCEPT ![h] = ExceptionOf("filter")]
    /\ UNCHANGED <<config, data, events, sess, text, event_type, previous_scene,
                   current_scene, next_scene, scenes_history, log, calls>>

\* The pass up to the on_exit hook that raises, once get_next_scene has
\* returned r: its on_transition hooks ran, and the next scene stays in the
\* context
ExitRaisesAfter(h, r) ==
    /\ r.status = "found" /\ r.scene # None
    /\ passes' = [passes EXCEPT ![h] = @ + 1]
    /\ data' = run_hooks(r.hooks, 1, data, sess[h])
    /\ next_scene' = [next_scene EXCEPT ![h] = r.scene]
    /\ handler_kwargs' = [handler_kwargs EXCEPT ![h] = exit_kwargs(r.kw, r.scene)]
    /\ log' = [log EXCEPT ![h] =
                 @ \o HookLog(r.hooks) \o << <<"on_exit", current_scene[h]>> >>]
    /\ calls' = [calls EXCEPT ![h] =
                   @ \o HookCalls(impl, r.hooks, passes'[h], r.kw, r.scene)
                     \o ExitCalls(current_scene[h], passes'[h], r.kw, r.scene)]

\* An on_exit hook of the current scene raises
ExitRaises(h) ==
    /\ pc[h] = "get_next_scene"
    /\ passes[h] < MaxPasses
    /\ current_scene[h] # None
    /\ ExitRaisesAfter(h, Resolved(h))
    /\ pc' = [pc EXCEPT ![h] = "done"]
    /\ result' = [result EXCEPT ![h] = ExceptionOf("on_exit")]
    /\ UNCHANGED <<config, events, sess, text, event_type, previous_scene,
                   current_scene, scenes_history>>

\* Call k of the on_enter hooks and the view of the next scene raises
EnterViewRaises(h, k) ==
    /\ pc[h] = "on_enter"
    /\ handler_kwargs' = [handler_kwargs EXCEPT ![h] =
                            enter_kwargs(@, current_scene[h], next_scene[h])]
    /\ log' = [log EXCEPT ![h] =
                 @ \o << <<"on_enter", next_scene[h]>> >>
                   \o (IF k >= 3 THEN << <<"view", next_scene[h]>> >> ELSE <<>>)]
    /\ calls' = [calls EXCEPT ![h] =
                   @ \o raised_calls(next_scene[h], passes[h], handler_kwargs'[h], k)]
    /\ pc' = [pc EXCEPT ![h] = "done"]
    /\ result' = [result EXCEPT ![h] =
          ExceptionOf(view_calls(next_scene[h], passes[h], handler_kwargs'[h])[k].kind)]
    /\ UNCHANGED <<config, data, events, sess, text, event_type, previous_scene,
                   current_scene, next_scene, scenes_history, passes>>

InitRaise ==
    /\ impl = "bases"
    /\ dialog = "quiz"
    /\ OneRouter
    /\ Registered
    /\ Start

NextRaise ==
    \/ Next
    \/ \E h \in Handlers :
           \/ FilterRaises(h)
           \/ ExitRaises(h)
           \/ \E k \in 1..4 : EnterViewRaises(h, k)

SpecRaise == InitRaise /\ [][NextRaise]_vars

\* ------------------------------------------------------------------------
\* BaseFiltersGroup.check on its own
\* ------------------------------------------------------------------------
MaxChain == 3

\* The predicates the chains are made of: two that return a value that is
\* not a mapping (true; false; None), three that return a mapping (empty; a
\* value for the key answer; another value for it), one that reads the context
Predicates ==
    {"true", "false", "none", "dict_empty", "dict_answer", "dict_answer_5", "has_answer"}

Chains == UNION {[1..n -> Predicates] : n \in 0..MaxChain}

\* filters_to_check maps an event type to its chain; the chain of the other
\* event type is empty or rejects
InitCheck ==
    /\ impl = "bases"
    /\ dialog = "quiz"
    /\ OneRouter
    /\ Registered
    /\ Idle
    /\ viewing = NoView
    /\ \E fs \in Chains, other \in {<<>>, <<"false">>},
          et \in {"message", "callback_query"},
          extra \in {{}, {<<"answer", 4>>}, {<<"123", 123>>}} :
          checking =
             [filters_to_check |->
                 [e \in {"message", "callback_query"} |-> IF e = et THEN fs ELSE other],
              event_type |-> et,
              kw |-> [EmptyKwargs EXCEPT !.extra = extra],
              done |-> FALSE,
              result |-> NoResult]

\* await filters.check(handler_args, handler_kwargs, event_type)
Check ==
    /\ ~checking.done
    /\ checking' =
          [checking EXCEPT
              !.done = TRUE,
              !.result = check(checking.filters_to_check[checking.event_type], 1, "x",
                               checking.kw)]
    /\ UNCHANGED <<impl, dialog, initialized_routers, registry_vars, data, events, pc, sess,
                   text, event_type, previous_scene, current_scene, next_scene,
                   handler_kwargs, scenes_history, passes, log, calls, viewing, result>>

SpecCheck == InitCheck /\ [][Check]_vars

\* ------------------------------------------------------------------------
\* A scene's view on its own: the view function wrapped by _pre_view and
\* then by _post_view
\* ------------------------------------------------------------------------
MaxHooks == 2

\* Hook functions by what their signature takes: takes_result has a
\* parameter view_result, takes_kwargs has **kwargs, takes_answer has a
\* parameter answer only
ViewHooks == {"takes_result", "takes_kwargs", "takes_answer"}

HookLists == UNION {[1..n -> ViewHooks] : n \in 0..MaxHooks}

\* What the view function returns
ViewResults == {None, "sent"}

\* check_spec: every keyword for a function with **kwargs, else the keywords
\* its signature names
check_spec(function, kwargs) ==
    CASE function = "takes_kwargs" -> kwargs
      [] function = "takes_result" -> {p \in kwargs : p[1] = "view_result"}
      [] function = "takes_answer" -> {p \in kwargs : p[1] = "answer"}
      [] OTHER -> kwargs

\* run_function(function, *args, **kwargs): one call, with the keywords
\* the function got
RunFunction(kind, function, kwargs) ==
    [kind |-> kind, name |-> function, kwargs |-> check_spec(function, kwargs)]

\* A wrapper that leaves the keywords as they came
with_view_result_missing(kwargs, view_result) == kwargs

\* kwargs['view_result'] = view_result
with_view_result(kwargs, view_result) ==
    {p \in kwargs : p[1] # "view_result"} \cup {<<"view_result", view_result>>}

\* _pre_view(view).wrapper: the on_pre_view hooks, then the view function,
\* whose result it returns
pre_view_wrapper(on_pre_view, returns, kwargs) ==
    [calls |-> [i \in 1..Len(on_pre_view) |->
                   RunFunction("on_pre_view", on_pre_view[i], kwargs)]
               \o << [kind |-> "view", name |-> "view_function", kwargs |-> kwargs] >>,
     result |-> returns]

\* _post_view(_pre_view(view)).wrapper, which is scene.view
post_view_wrapper(on_pre_view, on_post_view, returns, kwargs) ==
    LET inner == pre_view_wrapper(on_pre_view, returns, kwargs)
        view_result == inner.result IN
    [calls |-> inner.calls
               \o [i \in 1..Len(on_post_view) |->
                      RunFunction("on_post_view", on_post_view[i],
                                  with_view_result(kwargs, view_result))],
     result |-> view_result]

InitView ==
    /\ impl = "bases"
    /\ dialog = "quiz"
    /\ OneRouter
    /\ Registered
    /\ Idle
    /\ checking = NoCheck
    /\ \E pre \in HookLists, post \in HookLists, returns \in ViewResults,
          kwargs \in {{<<"answer", 4>>}, {<<"answer", 4>>, <<"view_result", "stale">>}} :
          viewing = [NoView EXCEPT !.on_pre_view = pre, !.on_post_view = post,
                                   !.returns = returns, !.kwargs = kwargs]

\* await scene.view(*args, **kwargs)
View ==
    /\ ~viewing.done
    /\ viewing' =
          [viewing EXCEPT
              !.done = TRUE,
              !.calls = post_view_wrapper(viewing.on_pre_view, viewing.on_post_view,
                                          viewing.returns, viewing.kwargs).calls,
              !.result = post_view_wrapper(viewing.on_pre_view, viewing.on_post_view,
                                           viewing.returns, viewing.kwargs).result]
    /\ UNCHANGED <<impl, dialog, initialized_routers, registry_vars, data, events, pc, sess,
                   text, event_type, previous_scene, current_scene, next_scene,
                   handler_kwargs, scenes_history, passes, log, calls, checking, result>>

SpecView == InitView /\ [][View]_vars

\* ------------------------------------------------------------------------
\* Declaring the class D, Dialog.init and Dialog.register
\* ------------------------------------------------------------------------
handler_vars ==
    <<impl, dialog, initialized_routers, data, events, pc, sess, text, event_type,
      previous_scene, current_scene, next_scene, handler_kwargs, scenes_history,
      passes, log, calls, checking, viewing, result>>

InitDeclare ==
    /\ impl = "bases"
    /\ dialog = "quiz"
    /\ OneRouter
    /\ Undeclared
    /\ meta_namespace \in MetaNamespaces
    /\ phase = "body_a"
    /\ Start

\* The attribute that is made after o in the class body
BodyAfter(o) == IF o = "a" THEN "body_relation" ELSE "body_r"

\* a = Scene(name=..., namespace=...), b = Scene(..., relations=relation)
NewScene(o, name, namespace) ==
    /\ phase = "body_" \o o
    /\ scenes' = [scenes EXCEPT ![o] = [made |-> TRUE, name |-> name, namespace |-> namespace]]
    /\ phase' = BodyAfter(o)
    /\ UNCHANGED <<relation, scenes_registry, initialized_dialogs, init_error, router_vars,
                   handler_vars>>

\* Relation(to, ...)
NewRelation(to) ==
    /\ phase = "body_relation"
    /\ relation' = new_relation(to, scenes)
    /\ phase' = "body_b"
    /\ UNCHANGED <<scenes, scenes_registry, initialized_dialogs, init_error, router_vars,
                   handler_vars>>

\* The scene as the loop of _DialogMeta.__new__ names it
named_by_meta(sc, key) ==
    [sc EXCEPT !.name = IF Truthy(@) THEN @ ELSE <<key>>,
               !.namespace = IF Truthy(@) THEN @ ELSE meta_namespace]

\* BaseDialog.register_scene: _initialized_scenes[scene.full_name] = scene
register_scene(registry, sc, o) ==
    [n \in DOMAIN registry \cup {full_name(sc)} |->
        IF n = full_name(sc) THEN o ELSE registry[n]]

\* The attribute the loop of _DialogMeta.__new__ or the program registers
\* after o
MetaAfter(o) == IF o = "a" THEN "meta_b" ELSE "meta_r"

\* One round of the loop of _DialogMeta.__new__ over the attributes of the
\* class: the scene gets its name and namespace where it has none, and
\* registers (BaseScene.register raises ValueError without them)
MetaScene(o) ==
    /\ phase = "meta_" \o o
    /\ LET sc == named_by_meta(scenes[o], o) IN
       /\ scenes' = [scenes EXCEPT ![o] = sc]
       /\ IF ~Truthy(sc.name) \/ ~Truthy(sc.namespace)
          THEN /\ phase' = "failed"
               /\ init_error' = "ValueError"
               /\ UNCHANGED scenes_registry
          ELSE /\ phase' = MetaAfter(o)
               /\ scenes_registry' = register_scene(scenes_registry, sc, o)
               /\ UNCHANGED init_error
    /\ UNCHANGED <<relation, initialized_dialogs, router_vars, handler_vars>>

\* scene.register() called by the program on the scene as it was made, for a
\* scene that no dialog class names
SceneRegister(o) ==
    /\ phase = "meta_" \o o
    /\ IF ~Truthy(scenes[o].name) \/ ~Truthy(scenes[o].namespace)
       THEN /\ phase' = "failed"
            /\ init_error' = "ValueError"
            /\ UNCHANGED scenes_registry
       ELSE /\ phase' = MetaAfter(o)
            /\ scenes_registry' = register_scene(scenes_registry, scenes[o], o)
            /\ UNCHANGED init_error
    /\ UNCHANGED <<scenes, relation, initialized_dialogs, router_vars, handler_vars>>

\* r = Router(namespace=...)
NewRouter(namespace) ==
    /\ phase = "body_r"
    /\ router' = [made |-> TRUE, namespace |-> namespace]
    /\ phase' = "meta_a"
    /\ UNCHANGED <<scenes, relation, scenes_registry, initialized_dialogs, init_error,
                   meta_namespace, routers_registry, handler_vars>>

\* BaseRouter.register: ValueError when self.namespace is None
router_register(rt) == IF rt.namespace = NoStr THEN "ValueError" ELSE None

\* The router rt registers: BaseDialog.register_router adds it to the set
RegisterRouter(rt) ==
    /\ router' = rt
    /\ IF router_register(rt) # None
       THEN /\ phase' = "failed"
            /\ init_error' = router_register(rt)
            /\ UNCHANGED routers_registry
       ELSE /\ phase' = "meta_dialog"
            /\ routers_registry' = routers_registry \cup {"r"}
            /\ UNCHANGED init_error
    /\ UNCHANGED <<scenes, relation, scenes_registry, initialized_dialogs, meta_namespace,
                   handler_vars>>

\* The round of the loop of _DialogMeta.__new__ for the router: it gets the
\* namespace of the class where it has none, and registers
MetaRouter ==
    /\ phase = "meta_r"
    /\ RegisterRouter([router EXCEPT !.namespace = IF Truthy(@) THEN @ ELSE meta_namespace])

\* router.register() called by the program on the router as it was made
RouterRegister ==
    /\ phase = "meta_r"
    /\ RegisterRouter(router)

\* cls.register_dialog(dialog=cls)
RegisterDialog ==
    /\ phase = "meta_dialog"
    /\ initialized_dialogs' = initialized_dialogs \cup {ClassName}
    /\ phase' = "declared"
    /\ UNCHANGED <<scenes, relation, scenes_registry, init_error, router_vars,
                   handler_vars>>

Registry(registry) == {registry[n] : n \in DOMAIN registry}

\* Dialog.init: every scene of the registry inits its relations with its
\* namespace; the relation belongs to the scene b
DialogInit ==
    /\ phase = "declared"
    /\ IF "b" \in Registry(scenes_registry)
       THEN LET r == init_scene(relation, scenes["b"].namespace, scenes_registry,
                                initialized_dialogs, scenes) IN
            /\ relation' = r.rel
            /\ init_error' = r.error
            /\ phase' = (IF r.error = None THEN "ready" ELSE "failed")
       ELSE /\ phase' = "ready"
            /\ UNCHANGED <<relation, init_error>>
    /\ UNCHANGED <<scenes, scenes_registry, initialized_dialogs, router_vars, handler_vars>>

\* Dialog.register: the handlers are added after cls.init returned
RegisterHandlers ==
    /\ phase = "ready"
    /\ phase' = "handling"
    /\ UNCHANGED <<scenes, relation, scenes_registry, initialized_dialogs, init_error,
                   router_vars, handler_vars>>

NextDeclare ==
    \/ \E o \in Objs, name \in NameArgs, namespace \in NamespaceArgs :
           NewScene(o, name, namespace)
    \/ \E to \in Targets : NewRelation(to)
    \/ \E namespace \in RouterNamespaceArgs : NewRouter(namespace)
    \/ \E o \in Objs : MetaScene(o)
    \/ \E o \in Objs : SceneRegister(o)
    \/ MetaRouter
    \/ RouterRegister
    \/ RegisterDialog
    \/ DialogInit
    \/ RegisterHandlers

SpecDeclare == InitDeclare /\ [][NextDeclare]_vars

\* The program from the class statement to the events: the class D as a
\* program of the examples writes it (scenes named by their attributes, a
\* router without a namespace of its own, every kind of relation target),
\* Dialog.register, then the events the dispatcher gives the handlers
InitBoot == InitDeclare /\ meta_namespace = <<ClassName>>

BootDeclare ==
    \/ \E o \in Objs : NewScene(o, NoStr, NoStr)
    \/ \E to \in Targets : NewRelation(to)
    \/ NewRouter(NoStr)
    \/ \E o \in Objs : MetaScene(o)
    \/ MetaRouter
    \/ RegisterDialog
    \/ DialogInit
    \/ RegisterHandlers

NextBoot == BootDeclare \/ Next

SpecBoot == InitBoot /\ [][NextBoot]_vars

\* ------------------------------------------------------------------------
\* Properties
\* ------------------------------------------------------------------------
Count(seq, e) == Cardinality({i \in 1..Len(seq) : seq[i] = e})

\* b is a, or a with one scene full name appended
SameOrAppended(a, b) ==
    \/ b = a
    \/ /\ Len(b) = Len(a) + 1
       /\ SubSeq(b, 1, Len(a)) = a
       /\ b[Len(b)] \in Scenes

\* C1: the last element of a session's history never names a scene whose
\* can_stay is false, whatever events were processed (also concurrently) and
\* whatever the back hook truncated.
C1_LastCanStay ==
    \A s \in Sessions : data[s] # <<>> => can_stay(dialog, Last(data[s]))

\* A scene that cannot stay was entered and shown on a session with a history
C1_Witness ==
    \E h \in Handlers :
        /\ pc[h] = "done"
        /\ ~can_stay(dialog, next_scene[h])
        /\ Count(log[h], <<"view", next_scene[h]>>) = 1
        /\ data[sess[h]] # <<>>

\* C2: get_current_scene is the registered scene named by the last element of
\* the session's history, and None on an empty history.
C2_CurrentIsLast ==
    \A s \in Sessions :
        LET c == get_current_scene(data, s) IN
        /\ data[s] = <<>> => c = None
        /\ data[s] # <<>> => c \in Scenes /\ c = data[s][Len(data[s])]

\* A history of two different names
C2_Witness ==
    \E s \in Sessions : Len(data[s]) >= 2 /\ data[s][1] # data[s][Len(data[s])]

\* An on_transition hook (external code) runs in this step
HookRuns == \E h \in Handlers : GetNextScene(h) /\ Resolved(h).hooks # <<>>

\* C3: with one event in flight per session, a step of bases' engine on the
\* shared storage leaves every history unchanged or appends one scene full
\* name to it; only a step that runs an on_transition hook may shorten one.
C3_EngineAppendsOnly ==
    [][(impl = "bases" /\ ~HookRuns) =>
          \A s \in Sessions : SameOrAppended(data[s], data'[s])]_vars

\* set_current_scene has extended a history that was not empty
C3_Witness ==
    \E h \in Handlers :
        /\ impl = "bases"
        /\ pc[h] = "on_enter"
        /\ Len(scenes_history[h]) >= 2
        /\ data[sess[h]] = scenes_history[h]

\* The scene entered in the pass that ends now is transitional (stated on the
\* dialogs of the model: only the start scene is, and not in "plain")
EntersTransitional(h) == next_scene[h] = start_scene /\ dialog # "plain"

\* C4: a pass that entered a transitional scene is followed by another
\* get_next_scene pass for the same event, with that scene as current and the
\* former current scene as previous scene, before anything is returned; a
\* pass that entered another scene ends the loop.
C4_TransitionalLoops ==
    [][\A h \in Handlers :
          /\ (pc[h] = "on_enter" /\ pc'[h] # "on_enter") =>
                IF EntersTransitional(h)
                THEN /\ pc'[h] = "get_next_scene"
                     /\ current_scene'[h] = next_scene[h]
                     /\ previous_scene'[h] = current_scene[h]
                     /\ <<sess'[h], text'[h], event_type'[h]>> = <<sess[h], text[h], event_type[h]>>
                     /\ result'[h] = "pending"
                ELSE /\ pc'[h] = "done"
                     /\ passes'[h] = passes[h]
          /\ (pc[h] = "get_next_scene" /\ pc'[h] # "get_next_scene") =>
                /\ passes'[h] = passes[h] + 1
                /\ handler_kwargs'[h].current_scene = current_scene[h]
                /\ handler_kwargs'[h].previous_scene = previous_scene[h]]_vars

\* A second pass ran with the start scene as current scene
C4_Witness ==
    \E h \in Handlers :
        /\ passes[h] = 2
        /\ current_scene[h] = start_scene
        /\ Count(log[h], <<"view", start_scene>>) = 1
        /\ pc[h] = "done"

\* The history ends with the two names a, b
EndsWith2(hist, a, b) ==
    Len(hist) >= 2 /\ hist[Len(hist) - 1] = a /\ hist[Len(hist)] = b

\* C5 (scenario C): with one event in flight per session, an event of bases'
\* engine that enters the transitional start scene takes two passes and
\* leaves the history ending with start_scene, q1 when the start scene can
\* stay, and ending with q1 with no start_scene entry when it cannot.
C5_ScenarioC ==
    \A h \in Handlers :
        (/\ impl = "bases"
         /\ pc[h] = "done"
         /\ dialog # "plain"
         /\ Count(log[h], <<"view", start_scene>>) >= 1)
        => /\ passes[h] = 2
           /\ log[h][Len(log[h])] = <<"view", q1>>
           /\ IF dialog = "quiz"
              THEN EndsWith2(data[sess[h]], start_scene, q1)
              ELSE /\ data[sess[h]] # <<>>
                   /\ Last(data[sess[h]]) = q1
                   /\ \A i \in 1..Len(data[sess[h]]) : data[sess[h]][i] # start_scene

\* The back relation re-entered the start scene and the event went on to q1
C5_Witness ==
    \E h \in Handlers :
        /\ impl = "bases" /\ dialog = "quiz" /\ pc[h] = "done"
        /\ text[h] = "back"
        /\ passes[h] = 2
        /\ data[sess[h]] = <<start_scene, q1>>

\* C6 (scenario A): with one event in flight per session, an event of bases'
\* engine on an empty history that a router relation sends to a scene that
\* can stay and is not transitional leaves the history [scene], runs the
\* on_enter hooks and the view of the scene once each and no on_exit hook,
\* in one pass.
C6_ScenarioA ==
    \A h \in Handlers :
        (/\ impl = "bases"
         /\ pc[h] = "done"
         /\ passes[h] = 1
         /\ current_scene[h] = None /\ previous_scene[h] = None
         /\ next_scene[h] # None
         /\ can_stay(dialog, next_scene[h])
         /\ ~(next_scene[h] = start_scene /\ dialog # "plain"))
        => /\ data[sess[h]] = <<next_scene[h]>>
           /\ Count(log[h], <<"on_enter", next_scene[h]>>) = 1
           /\ Count(log[h], <<"view", next_scene[h]>>) = 1
           /\ \A i \in 1..Len(log[h]) : log[h][i][1] # "on_exit"
           /\ result[h] = "None"

\* The router sent an empty session to the plain start scene
C6_Witness ==
    \E h \in Handlers :
        /\ impl = "bases" /\ dialog = "plain" /\ pc[h] = "done"
        /\ text[h] = "start"
        /\ current_scene[h] = None
        /\ next_scene[h] = start_scene
        /\ data[sess[h]] = <<start_scene>>

\* The current scene of h has one relation, which applies to the event type
\* and whose filter chain rejects the context
OnlyRelationRejects(h) ==
    /\ pc[h] = "get_next_scene"
    /\ current_scene[h] # None
    /\ Len(relations(current_scene[h])) = 1
    /\ event_type[h] \in relations(current_scene[h])[1].event_types
    /\ \E i \in 1..Len(relations(current_scene[h])[1].filters) :
          LET r == run_filter(relations(current_scene[h])[1].filters[i], text[h], PassKwargs(h))
          IN ~r.dict /\ ~r.val

\* What the relations of the routers alone give for the event of h
RouterScan(h) ==
    scan(impl, router_relations(dialog), event_type[h], text[h], PassKwargs(h))

\* C7 (scenario B): when the only relation of the current scene rejects, the
\* pass gives what the relations of the routers give; and when no router
\* relation accepts, the event ends unhandled: no next scene, no hook, no
\* view, no change of a history, no error.
C7_ScenarioB ==
    [][\A h \in Handlers :
          (OnlyRelationRejects(h) /\ pc'[h] # "get_next_scene") =>
             /\ next_scene'[h] = RouterScan(h).scene
             /\ RouterScan(h).status = "none" =>
                   /\ pc'[h] = "done"
                   /\ next_scene'[h] = None
                   /\ log'[h] = <<>>
                   /\ data' = data
                   /\ result'[h] = skip_handler(impl)]_vars

\* q1 rejected the text and no router relation of the plain dialog took it
C7_Witness ==
    \E h \in Handlers :
        /\ dialog = "plain" /\ pc[h] = "done"
        /\ current_scene[h] = q1 /\ text[h] = "x" /\ event_type[h] = "message"
        /\ next_scene[h] = None
        /\ passes[h] = 1

\* C8: when get_next_scene returned None the handler raises no error and what
\* it gives its caller differs from what it gives after a transition (the
\* return value None), for both handlers.
C8_NoTransitionDistinguishable ==
    \A h \in Handlers :
        (pc[h] = "done" /\ next_scene[h] = None /\ result[h] # "AttributeError")
        => result[h] # "None"

\* C9: set_current_scene twice in a row with the same scene adds at most one
\* element in total and the second call changes nothing; a call with the last
\* entry leaves the history unchanged; on an empty history the history
\* becomes [scene], for both storages and every session.
C9_AppendIfDifferent ==
    \A s \in Sessions, n \in Scenes :
        LET d1 == set_current_scene(impl, data, s, n)
            d2 == set_current_scene(impl, d1, s, n) IN
        /\ Len(d2[s]) <= Len(data[s]) + 1
        /\ d2[s] = d1[s]
        /\ (data[s] # <<>> /\ Last(data[s]) = n) => d1[s] = data[s]
        /\ data[s] = <<>> => d1[s] = <<n>>

\* C10: when set_current_scene(chat_id, user_id, S) has written, the history
\* of (chat_id, user_id) ends with the full name of S, for both storages and
\* also when chat_id differs from user_id.
C10_HistoryEndsWithScene ==
    [][\A h \in Handlers :
          SetWrite(h) =>
             /\ get_scenes_history(data', sess[h]) # <<>>
             /\ Last(get_scenes_history(data', sess[h])) = next_scene[h]]_vars

\* ------------------------------------------------------------------------
\* C11: in one get_next_scene call of bases, the keys of a mapping returned
\* by a predicate of a relation's filter chain are in the context that the
\* later predicates of that chain, the entry filters of the relation's
\* target and the relation's on_transition hooks are called with.
\* ------------------------------------------------------------------------
\* The keys the predicate f returns as a mapping ({} for a boolean result)
MappingOf(f) == run_filter(f, "x", EmptyKwargs).items

\* Call j of the trace is a later call made for the relation of call i
LaterOfRelation(tr, i, j) ==
    i < j /\ tr[j].rel = tr[i].rel /\ tr[j].owner = tr[i].owner

KeysReachLaterCalls(tr) ==
    \A i, j \in 1..Len(tr) :
        (tr[i].kind = "filter" /\ LaterOfRelation(tr, i, j))
            => MappingOf(tr[i].name) \subseteq tr[j].seen

C11_MappingKeysVisible ==
    \A h \in Handlers :
        (impl = "bases" /\ pc[h] = "get_next_scene")
            => KeysReachLaterCalls(Resolved(h).trace)

\* A call in which a mapping was returned and then a later predicate of the
\* chain, an entry filter of the target and an on_transition hook ran
C11_Witness ==
    \E h \in Handlers :
        /\ impl = "bases" /\ pc[h] = "get_next_scene"
        /\ LET tr == Resolved(h).trace IN
           \E i \in 1..Len(tr) :
               /\ tr[i].kind = "filter" /\ MappingOf(tr[i].name) # {}
               /\ \A k \in {"filter", "entry", "on_transition"} :
                      \E j \in 1..Len(tr) : LaterOfRelation(tr, i, j) /\ tr[j].kind = k

\* ------------------------------------------------------------------------
\* C12: among the relations of the current scene, get_next_scene of bases
\* returns the target of the first relation in declaration order that is
\* applicable to the event type, whose filter chain accepts and whose
\* target's entry filters accept; no predicate of a relation declared after
\* it is called.
\* ------------------------------------------------------------------------
\* The entry filters of the target of rel accept in the context kw
EntryAccepts(rel, t, kw) ==
    LET target == get_scene(rel, kw) IN
    /\ target # None
    /\ scene_filters(target) # None => check(scene_filters(target), 1, t, kw).ok

\* rel is applicable, its chain accepts and its target lets the event in
Accepts(rel, et, t, kw) ==
    /\ et \in rel.event_types
    /\ check(rel.filters, 1, t, kw).ok
    /\ EntryAccepts(rel, t, check(rel.filters, 1, t, kw).kw)

\* The context a rejected relation leaves to the relations after it
LeftBy(rel, et, t, kw) ==
    IF et \notin rel.event_types THEN kw
    ELSE LET c == check(rel.filters, 1, t, kw) IN
         IF ~c.ok \/ get_scene(rel, c.kw) = None \/ scene_filters(get_scene(rel, c.kw)) = None
         THEN c.kw
         ELSE check(scene_filters(get_scene(rel, c.kw)), 1, t, c.kw).kw

\* The context relation i of rels is evaluated in
RECURSIVE ContextAt(_, _, _, _, _)
ContextAt(rels, i, et, t, kw) ==
    IF i = 1 THEN kw
    ELSE LeftBy(rels[i - 1], et, t, ContextAt(rels, i - 1, et, t, kw))

AcceptsAt(rels, i, et, t, kw) ==
    Accepts(rels[i], et, t, ContextAt(rels, i, et, t, kw))

\* i is the first accepted relation of rels
FirstAccepted(rels, i, et, t, kw) ==
    /\ AcceptsAt(rels, i, et, t, kw)
    /\ \A j \in 1..(i - 1) : ~AcceptsAt(rels, j, et, t, kw)

\* Relation j of the current scene had a predicate called in the trace
Evaluated(tr, rel) ==
    \E n \in 1..Len(tr) : tr[n].owner = "scene" /\ tr[n].kind = "filter" /\ tr[n].rel = rel

C12_FirstRelationWins ==
    \A h \in Handlers :
        (impl = "bases" /\ pc[h] = "get_next_scene" /\ current_scene[h] # None) =>
            LET rels == relations(current_scene[h])
                r == Resolved(h) IN
            \A i \in 1..Len(rels) :
                FirstAccepted(rels, i, event_type[h], text[h], PassKwargs(h)) =>
                    /\ r.status = "found"
                    /\ r.scene = get_scene(rels[i], r.kw)
                    /\ r.hooks = rels[i].on_transition
                    /\ \A j \in (i + 1)..Len(rels) : ~Evaluated(r.trace, rels[j])

\* A call in which the first relation is accepted and a relation declared
\* after it would accept the event too
C12_Witness ==
    \E h \in Handlers :
        /\ impl = "bases" /\ pc[h] = "get_next_scene" /\ current_scene[h] # None
        /\ LET rels == relations(current_scene[h]) IN
           \E i, j \in 1..Len(rels) :
               /\ i < j
               /\ FirstAccepted(rels, i, event_type[h], text[h], PassKwargs(h))
               /\ Accepts(rels[j], event_type[h], text[h], PassKwargs(h))
               /\ Resolved(h).scene = get_scene(rels[i], PassKwargs(h))

\* ------------------------------------------------------------------------
\* C13: in one get_next_scene call of bases the routers are a fallback: when
\* a relation of the current scene is accepted, no predicate of a router
\* relation is called and the target returned is that relation's; the
\* routers are scanned exactly when there is no current scene or no relation
\* of the current scene is accepted.
\* ------------------------------------------------------------------------
\* Some relation of the scene cur is accepted
OwnAccepted(cur, et, t, kw) ==
    /\ cur # None
    /\ \E i \in 1..Len(relations(cur)) : AcceptsAt(relations(cur), i, et, t, kw)

\* A predicate of a router relation was called
RouterEvaluated(tr) == \E n \in 1..Len(tr) : tr[n].owner = "router"

C13_RoutersAreFallback ==
    \A h \in Handlers :
        (impl = "bases" /\ pc[h] = "get_next_scene") =>
            LET r == Resolved(h)
                own == OwnAccepted(current_scene[h], event_type[h], text[h], PassKwargs(h)) IN
            /\ RouterEvaluated(r.trace) <=> ~own
            /\ own => \E i \in 1..Len(relations(current_scene[h])) :
                          r.scene = get_scene(relations(current_scene[h])[i], r.kw)
            /\ ~own => r.scene = scan(impl, router_relations(dialog), event_type[h], text[h],
                                      r.kw).scene

\* A call in which a relation of the current scene is accepted and a router
\* relation would accept the event too
C13_Witness ==
    \E h \in Handlers :
        /\ impl = "bases" /\ pc[h] = "get_next_scene"
        /\ OwnAccepted(current_scene[h], event_type[h], text[h], PassKwargs(h))
        /\ scan(impl, router_relations(dialog), event_type[h], text[h],
                PassKwargs(h)).status = "found"
        /\ ~RouterEvaluated(Resolved(h).trace)

\* ------------------------------------------------------------------------
\* C14: when the filter chain of a relation accepts and the entry filters
\* of its target reject, get_next_scene of bases does not return that
\* target, runs none of that relation's on_transition hooks, and goes on
\* with the next relation of the scene, and after the last one with the
\* routers.
\* ------------------------------------------------------------------------
\* Relation i of rels is reached, its chain accepts, its target rejects
RejectedAtEntry(rels, i, et, t, kw) ==
    LET before == ContextAt(rels, i, et, t, kw) IN
    /\ \A j \in 1..(i - 1) : ~AcceptsAt(rels, j, et, t, kw)
    /\ et \in rels[i].event_types
    /\ check(rels[i].filters, 1, t, before).ok
    /\ get_scene(rels[i], before) # None
    /\ ~EntryAccepts(rels[i], t, check(rels[i].filters, 1, t, before).kw)

\* A call was made in the trace for the hooks of the scene's relation rel
HookRan(tr, rel) ==
    \E n \in 1..Len(tr) :
        tr[n].owner = "scene" /\ tr[n].kind = "on_transition" /\ tr[n].rel = rel

C14_EntryRejectionSkips ==
    \A h \in Handlers :
        (impl = "bases" /\ pc[h] = "get_next_scene" /\ current_scene[h] # None) =>
            LET rels == relations(current_scene[h])
                r == Resolved(h) IN
            \A i \in 1..Len(rels) :
                RejectedAtEntry(rels, i, event_type[h], text[h], PassKwargs(h)) =>
                    /\ r.scene # get_scene(rels[i], r.kw)
                    /\ ~HookRan(r.trace, rels[i])
                    /\ i < Len(rels) => Evaluated(r.trace, rels[i + 1])
                    /\ (\A j \in (i + 1)..Len(rels) :
                            ~AcceptsAt(rels, j, event_type[h], text[h], PassKwargs(h)))
                        => RouterEvaluated(r.trace)

\* A call in which the target of the first relation rejects the event and
\* the second relation is then accepted
C14_Witness ==
    \E h \in Handlers :
        /\ impl = "bases" /\ pc[h] = "get_next_scene" /\ current_scene[h] # None
        /\ LET rels == relations(current_scene[h]) IN
           /\ Len(rels) >= 2
           /\ RejectedAtEntry(rels, 1, event_type[h], text[h], PassKwargs(h))
           /\ AcceptsAt(rels, 2, event_type[h], text[h], PassKwargs(h))
           /\ Resolved(h).scene = get_scene(rels[2], PassKwargs(h))

\* ------------------------------------------------------------------------
\* C15: the routers are scanned in the order they were registered in: when
\* relations of two registered routers both accept an event, get_next_scene
\* returns the target from the router that was registered first.
\* ------------------------------------------------------------------------
\* What the relations of the n-th registered router give for the event of h
RouterGives(h, n) ==
    scan(impl, relations_of_router(dialog, registered_routers(dialog)[n]),
         event_type[h], text[h], PassKwargs(h))

C15_RegistrationOrder ==
    \A h \in Handlers :
        (pc[h] = "get_next_scene"
         /\ ~OwnAccepted(current_scene[h], event_type[h], text[h], PassKwargs(h))) =>
            \A n \in 1..Len(registered_routers(dialog)) :
                (/\ RouterGives(h, n).status = "found"
                 /\ \A m \in 1..(n - 1) : RouterGives(h, m).status = "none")
                    => Resolved(h).scene = RouterGives(h, n).scene

\* ------------------------------------------------------------------------
\* C16: the full names of the registered scenes are unique, and registering
\* a second scene under a full name that is already registered is rejected:
\* the scene registered first stays in the registry under that name.
\* ------------------------------------------------------------------------
C16_DuplicateRejected ==
    [][\A n \in DOMAIN scenes_registry :
          n \in DOMAIN scenes_registry' /\ scenes_registry'[n] = scenes_registry[n]]_vars

\* ------------------------------------------------------------------------
\* C17: when the init pass ends without an error, the relation whose target
\* was given as a scene name string or as a forward reference is resolved
\* to a scene; a target that names no scene or dialog of the registry makes
\* the init pass fail.
\* ------------------------------------------------------------------------
C17_UnresolvedTargetFailsInit ==
    (phase \in {"ready", "handling"} /\ relation.to.kind \in {"str", "future"})
        => relation.to_scene # None

\* ------------------------------------------------------------------------
\* C18: after the init pass, a relation made with a Scene object as target,
\* a scene that is registered under its full name, has that scene as its
\* resolved target, whether or not the scene had its name and namespace
\* when the relation was made.
\* ------------------------------------------------------------------------
\* The Scene object o is what the registry holds under o's full name
RegisteredUnderItsName(o) ==
    /\ full_name(scenes[o]) \in DOMAIN scenes_registry
    /\ scenes_registry[full_name(scenes[o])] = o

C18_SceneObjectTargetKept ==
    (/\ phase \in {"ready", "failed", "handling"}
     /\ relation.to.kind = "scene"
     /\ RegisteredUnderItsName(relation.to.obj))
        => (init_error = None /\ relation.to_scene = relation.to.obj)

\* ------------------------------------------------------------------------
\* C19: events of one session are not serialized by the core.  The write of
\* set_current_scene stores the list the handler computed from its own
\* read, whatever was written to the session since that read: the last
\* write wins, and an entry another event appended in between is lost.
\* ------------------------------------------------------------------------
Writes(h) == pc[h] = "update_data" /\ pc'[h] = "on_enter"

C19_LastWriteWins ==
    [][\A h \in Handlers :
          (impl = "bases" /\ Writes(h)) => get_scenes_history(data', sess[h]) = scenes_history[h]]_vars

Elements(h) == {h[i] : i \in 1..Len(h)}

\* h has appended its scene and written; g, in flight for the same session,
\* has then written the list it computed from an older read
LostUpdate(h, g) ==
    /\ h # g /\ sess[h] = sess[g]
    /\ pc[h] \in {"on_enter", "done"} /\ pc[g] = "on_enter"
    /\ must_set(dialog, current_scene[h], next_scene[h])
    /\ must_set(dialog, current_scene[g], next_scene[g])
    /\ next_scene[h] \in Elements(scenes_history[h])
    /\ get_scenes_history(data, sess[h]) = scenes_history[g]
    /\ next_scene[h] \notin Elements(get_scenes_history(data, sess[h]))

C19_Witness == impl = "bases" /\ \E h, g \in Handlers : LostUpdate(h, g)

\* ------------------------------------------------------------------------
\* C20: the loop of default_handler has no bound on its passes.  It ends,
\* other than by an exception, only after a pass that found no matching
\* relation or entered a scene that is not transitional; in a cycle of
\* transitional scenes whose relations accept the event it does not end.
\* ------------------------------------------------------------------------
\* The scene s is transitional in the dialog d, said on the dialogs
Transitional(d, s) ==
    \/ s = start_scene /\ d \in {"quiz", "nostay", "guarded", "routers", "cycle"}
    \/ s = end_scene /\ d = "cycle"

\* The event of h went round the cycle: it left the end scene of the dialog
\* "cycle" for the end scene
InCycle(h) ==
    dialog = "cycle" /\ current_scene[h] = end_scene /\ passes[h] >= 1 /\ InFlight(h)

C20_LoopEndsOnlyByItsExits ==
    \A h \in Handlers :
        /\ (impl = "bases" /\ pc[h] = "done") =>
               \/ result[h] = "AttributeError"
               \/ next_scene[h] = None
               \/ ~Transitional(dialog, next_scene[h])
        /\ (impl = "bases" /\ InCycle(h) /\ passes[h] >= 2) =>
               (pc[h] # "done" /\ next_scene[h] = end_scene)

\* An event that is in the cycle after as many passes as the model follows
C20_Witness ==
    \E h \in Handlers :
        impl = "bases" /\ InCycle(h) /\ passes[h] = MaxPasses /\ pc[h] = "get_next_scene"

\* ------------------------------------------------------------------------
\* C25: in every pass of the loop that resolved a target the effects come
\* in this order, one after the other: the on_transition hooks of the
\* chosen relation, the on_exit hooks of the current scene (if there is
\* one), the history update by set_current_scene (if it applies), the
\* on_enter hooks of the target, its on_pre_view hooks, its view, its
\* on_post_view hooks.
\* ------------------------------------------------------------------------
\* The place of a kind of call in a pass
Rank(kind) ==
    CASE kind = "on_transition" -> 1
      [] kind = "on_exit" -> 2
      [] kind = "set_current_scene" -> 3
      [] kind = "on_enter" -> 4
      [] kind = "on_pre_view" -> 5
      [] kind = "view" -> 6
      [] kind = "on_post_view" -> 7

\* The calls of the sequence c made in the pass p, in order
CallsOfPass(c, p) == SelectSeq(c, LAMBDA e : e.pass = p)

\* The kinds of the sequence c
Kinds(c) == {c[i].kind : i \in 1..Len(c)}

\* The pass p of h went through its view
PassDone(h, p) == p < passes[h] \/ (p = passes[h] /\ pc[h] \in {"done", "get_next_scene"})

C25_OrderOfEffects ==
    \A h \in Handlers :
        LET c == calls[h] IN
        /\ \A i, j \in 1..Len(c) : i < j =>
              /\ c[i].pass <= c[j].pass
              /\ c[i].pass = c[j].pass =>
                    \/ Rank(c[i].kind) < Rank(c[j].kind)
                    \/ c[i].kind = "on_transition" /\ c[j].kind = "on_transition"
        /\ \A p \in 1..passes[h] :
              LET cp == CallsOfPass(c, p) IN
              ("on_enter" \in Kinds(cp) /\ PassDone(h, p)) =>
                  /\ Len(cp) >= 4
                  /\ <<cp[Len(cp) - 3].kind, cp[Len(cp) - 2].kind,
                       cp[Len(cp) - 1].kind, cp[Len(cp)].kind>>
                        = <<"on_enter", "on_pre_view", "view", "on_post_view">>
                  /\ (cp[Len(cp)].previous_scene # None) = ("on_exit" \in Kinds(cp))
                  /\ \A i \in 1..Len(cp) : cp[i].kind = "set_current_scene" =>
                        /\ cp[i].name = cp[Len(cp)].name
                        /\ "on_enter" \notin Kinds(SubSeq(cp, 1, i))

\* A pass that made the seven kinds of calls
C25_Witness ==
    \E h \in Handlers : \E p \in 1..passes[h] :
        /\ Kinds(CallsOfPass(calls[h], p)) =
              {"on_transition", "on_exit", "set_current_scene", "on_enter",
               "on_pre_view", "view", "on_post_view"}
        /\ pc[h] = "done"

\* ------------------------------------------------------------------------
\* C28: while the on_enter hooks and the view of the resolved target run,
\* the context's current_scene is that target and its previous_scene is the
\* scene that was current at the start of the pass (None on a first pass
\* with an empty history); at the start of the next pass of the same event
\* the same two scenes are the current and the previous scene.  The scene
\* current at the start of the first pass is the one get_current_scene read;
\* that it is None on an empty history is stated for the shared storage,
\* where no other session writes into the history in between.
\* ------------------------------------------------------------------------
ViewKinds == {"on_enter", "on_pre_view", "view", "on_post_view"}

\* The scene that was current when the pass p of the calls c began: the one
\* whose on_exit hooks the pass ran, None when it ran none
StartOfPass(c, p) ==
    IF \E i \in 1..Len(c) : c[i].pass = p /\ c[i].kind = "on_exit"
    THEN (CHOOSE e \in {c[i] : i \in 1..Len(c)} : e.pass = p /\ e.kind = "on_exit").name
    ELSE None

\* The scene the pass p of the calls c entered
TargetOfPass(c, p) ==
    (CHOOSE e \in {c[i] : i \in 1..Len(c)} : e.pass = p /\ e.kind = "view").name

Viewed(c, p) == \E i \in 1..Len(c) : c[i].pass = p /\ c[i].kind = "view"

C28_ScenesInContext ==
    \A h \in Handlers :
        LET c == calls[h] IN
        /\ \A i \in 1..Len(c) : c[i].kind \in ViewKinds =>
              /\ c[i].current_scene = c[i].name
              /\ c[i].current_scene = next_scene[h] \/ c[i].pass < passes[h]
              /\ c[i].previous_scene = StartOfPass(c, c[i].pass)
              /\ (c[i].pass > 1 /\ Viewed(c, c[i].pass - 1)) =>
                    c[i].previous_scene = TargetOfPass(c, c[i].pass - 1)
              /\ (c[i].pass = 1 /\ passes[h] = 1 /\ pc[h] = "done") =>
                    c[i].previous_scene = current_scene[h]
        /\ (impl = "bases" /\ pc[h] = "get_next_scene" /\ passes[h] = 0
               /\ data[sess[h]] = <<>>) => current_scene[h] = None
        /\ (pc[h] = "get_next_scene" /\ passes[h] >= 1) =>
              /\ Viewed(c, passes[h])
              /\ current_scene[h] = TargetOfPass(c, passes[h])
              /\ previous_scene[h] = StartOfPass(c, passes[h])
              /\ PassKwargs(h).current_scene = TargetOfPass(c, passes[h])
              /\ PassKwargs(h).previous_scene = StartOfPass(c, passes[h])
        /\ \A i \in 1..Len(c) :
              (c[i].kind \in {"on_transition", "on_exit"} /\ c[i].pass > 1) =>
                  /\ c[i].current_scene = TargetOfPass(c, c[i].pass - 1)
                  /\ c[i].previous_scene = StartOfPass(c, c[i].pass - 1)

\* An event that entered the start scene from no scene and then, in its
\* second pass, the first question
C28_Witness ==
    \E h \in Handlers :
        /\ pc[h] = "done" /\ passes[h] = 2
        /\ \E i, j \in 1..Len(calls[h]) :
              /\ calls[h][i].kind = "view" /\ calls[h][i].pass = 1
              /\ calls[h][i].previous_scene = None
              /\ calls[h][i].current_scene = start_scene
              /\ calls[h][j].kind = "view" /\ calls[h][j].pass = 2
              /\ calls[h][j].previous_scene = start_scene
              /\ calls[h][j].current_scene = q1

\* ------------------------------------------------------------------------
\* C27: the next_scene slot of the context holds the resolved target only
\* while the on_exit hooks of the current scene run; it is None while the
\* chains of the relations and the entry filters are evaluated, and None
\* again while the on_enter hooks and the view of the target run, in every
\* pass.  (The on_transition hooks of bases are given a copy of the context
\* merged with the target; the slot of the context is None meanwhile.)
\* ------------------------------------------------------------------------
C27_NextSceneSlot ==
    \A h \in Handlers :
        LET c == calls[h] IN
        /\ handler_kwargs[h].next_scene = None
        /\ \A i \in 1..Len(c) :
              /\ c[i].kind = "on_exit" =>
                    /\ c[i].next_scene # None
                    /\ c[i].next_scene = next_scene[h] \/ c[i].pass < passes[h]
                    /\ Viewed(c, c[i].pass) => c[i].next_scene = TargetOfPass(c, c[i].pass)
              /\ c[i].kind \in ViewKinds \cup {"set_current_scene"} =>
                    c[i].next_scene = None
        /\ pc[h] = "get_next_scene" =>
              LET tr == Resolved(h).trace IN
              \A i \in 1..Len(tr) : tr[i].next_scene = None

\* An event in its second pass: the on_exit hooks of the first scene saw the
\* target, the view of the target did not, and the predicates of the second
\* pass are about to be called
C27_Witness ==
    \E h \in Handlers :
        /\ impl = "bases" /\ pc[h] = "get_next_scene" /\ passes[h] = 1
        /\ Resolved(h).trace # <<>>
        /\ \E i, j \in 1..Len(calls[h]) :
              /\ calls[h][i].kind = "on_exit" /\ calls[h][i].next_scene = start_scene
              /\ calls[h][j].kind = "view" /\ calls[h][j].name = start_scene

\* ------------------------------------------------------------------------
\* C26: the on_transition hooks of a relation run exactly once in a pass in
\* which that relation is the chosen edge, after its filter chain and the
\* entry filters of its target accepted and before the history of the
\* session or the current scene of the context change; the on_transition
\* hooks of a relation that was not chosen in the pass do not run.
\* ------------------------------------------------------------------------
Names(c) == [i \in 1..Len(c) |-> c[i].name]

OnTransition(c) == SelectSeq(c, LAMBDA e : e.kind = "on_transition")

\* The calls of the trace tr made for the relation rel owned by o
MadeFor(tr, kind, rel, o) ==
    SelectSeq(tr, LAMBDA e : e.kind = kind /\ e.rel = rel /\ e.owner = o)

\* The predicate called at entry e of a trace let the event through
Passed(e, t, kw) ==
    LET res == run_filter(e.name, t, [kw EXCEPT !.extra = e.seen]) IN
    res.dict \/ res.val

\* The hooks at the end of the trace tr are those of one relation, each called
\* once, after every predicate of its chain and every entry filter of the
\* target passed
ChosenEdgeOnly(tr, target, t, kw) ==
    LET hk == OnTransition(tr) IN
    hk # <<>> =>
        LET rel == hk[1].rel
            o == hk[1].owner
            fs == MadeFor(tr, "filter", rel, o)
            es == MadeFor(tr, "entry", rel, o) IN
        /\ \A i \in 1..Len(hk) : hk[i].rel = rel /\ hk[i].owner = o
        /\ Names(hk) = rel.on_transition
        /\ \A i, j \in 1..Len(tr) :
              (i < j /\ tr[i].kind = "on_transition") => tr[j].kind = "on_transition"
        /\ Names(fs) = rel.filters
        /\ \A i \in 1..Len(fs) : Passed(fs[i], t, kw)
        /\ Names(es) = (IF scene_filters(target) = None THEN <<>> ELSE scene_filters(target))
        /\ \A i \in 1..Len(es) : Passed(es[i], t, kw)

C26_OnTransitionOnce ==
    [][\A h \in Handlers :
          (impl = "bases" /\ pc[h] = "get_next_scene" /\ pc'[h] # "get_next_scene") =>
              LET r == Resolved(h)
                  new == SubSeq(calls'[h], Len(calls[h]) + 1, Len(calls'[h]))
                  ran == OnTransition(new) IN
              /\ Names(ran) = Names(OnTransition(r.trace))
              /\ ran # <<>> =>
                    /\ r.status = "found"
                    /\ r.scene = get_scene(OnTransition(r.trace)[1].rel, r.kw)
              /\ ChosenEdgeOnly(r.trace, r.scene, text[h], PassKwargs(h))
              /\ r.status = "found" => Names(ran) = r.hooks
              /\ r.status # "found" => ran = <<>>
              /\ \A i \in 1..Len(ran) :
                    /\ ran[i].pass = passes'[h]
                    /\ ran[i].current_scene = current_scene[h]
                    /\ ran[i].previous_scene = previous_scene[h]
              /\ \A i \in 1..Len(new) : new[i].kind \in {"on_transition", "on_exit"}
              /\ \A i, j \in 1..Len(new) :
                    (i < j /\ new[j].kind = "on_transition") => new[i].kind = "on_transition"]_vars

\* A pass from q2 whose first relation was chosen for the answer 4: its hook
\* ran once, before the on_exit hooks of q2, and the history is not written
\* yet
C26_Witness ==
    \E h \in Handlers :
        /\ impl = "bases" /\ pc[h] = "set_current_scene"
        /\ current_scene[h] = q2 /\ next_scene[h] = q3
        /\ Names(OnTransition(calls[h])) = <<"process_correct_answer">>
        /\ calls[h][Len(calls[h])].kind = "on_exit"
        /\ get_current_scene(data, sess[h]) = q2

\* A pass from q2 whose first relation was refused by the entry filters of
\* q3: its hook did not run
C26_WitnessNotChosen ==
    \E h \in Handlers :
        /\ impl = "bases" /\ pc[h] = "on_enter"
        /\ current_scene[h] = q2 /\ next_scene[h] = incorrect_answer
        /\ OnTransition(calls[h]) = <<>>

\* ------------------------------------------------------------------------
\* C29: set_current_scene is called in a pass exactly when the resolved
\* target has can_stay and is not the current scene; a pass whose target is
\* the current scene leaves the history as it is and still runs the on_exit
\* hooks, the on_enter hooks and the view of that scene.
\* ------------------------------------------------------------------------
\* The calls h makes in the step
NewCalls(h) == SubSeq(calls'[h], Len(calls[h]) + 1, Len(calls'[h]))

\* The pass of h resolved a target in the step
Resolves(h) == pc[h] = "get_next_scene" /\ pc'[h] \in {"set_current_scene", "on_enter"}

C29_SetCurrentSceneWhen ==
    [][\A h \in Handlers :
          /\ Resolves(h) =>
                /\ (pc'[h] = "set_current_scene") <=>
                      (can_stay(dialog, next_scene'[h]) /\ next_scene'[h] # current_scene[h])
                /\ next_scene'[h] = current_scene[h] =>
                      /\ get_scenes_history(data', sess[h]) =
                            get_scenes_history(
                                run_hooks(Resolved(h).hooks, 1, data, sess[h]), sess[h])
                      /\ \E i \in 1..Len(NewCalls(h)) :
                            /\ NewCalls(h)[i].kind = "on_exit"
                            /\ NewCalls(h)[i].name = current_scene[h]
          /\ (pc[h] = "on_enter" /\ pc'[h] # "on_enter") =>
                /\ data' = data
                /\ Kinds(NewCalls(h)) = ViewKinds
                /\ \A i \in 1..Len(NewCalls(h)) : NewCalls(h)[i].name = next_scene[h]
                /\ ("set_current_scene" \in Kinds(CallsOfPass(calls[h], passes[h]))) <=>
                      (can_stay(dialog, next_scene[h]) /\ next_scene[h] # current_scene[h])
          /\ (\E i \in 1..Len(NewCalls(h)) : NewCalls(h)[i].kind = "set_current_scene") =>
                /\ pc[h] = "update_data"
                /\ can_stay(dialog, next_scene[h]) /\ next_scene[h] # current_scene[h]]_vars

\* An event whose target was the current scene, a scene with can_stay, went
\* through its pass: the on_exit hooks, the on_enter hooks and the view of
\* the scene ran, set_current_scene did not, and the history still ends
\* with the scene
C29_Witness ==
    \E h \in Handlers :
        /\ pc[h] = "done" /\ passes[h] = 1
        /\ current_scene[h] # None /\ next_scene[h] = current_scene[h]
        /\ can_stay(dialog, next_scene[h])
        /\ Kinds(calls[h]) = {"on_exit"} \cup ViewKinds
        /\ get_current_scene(data, sess[h]) = current_scene[h]

\* ------------------------------------------------------------------------
\* C30: an event whose resolved target is a scene with can_stay false that
\* is not transitional leaves the history of the session as it was, so the
\* next event of the session is resolved from the same current scene,
\* although the on_exit hooks of the current scene and the on_enter hooks
\* and the view of the target ran.
\* ------------------------------------------------------------------------
\* The event of h ended in its first pass at a scene that does not persist
EndedAtTransient(h) ==
    /\ pc[h] = "done" /\ result[h] = "None" /\ passes[h] = 1
    /\ next_scene[h] # None
    /\ ~can_stay(dialog, next_scene[h])
    /\ ~is_transitional_scene(dialog, next_scene[h])

\* The target of the pass of h does not persist and ends the loop
Transient(d, nxt) == nxt # None /\ ~can_stay(d, nxt) /\ ~is_transitional_scene(d, nxt)

C30_TransientTargetKeepsHistory ==
    [][\A h \in Handlers :
          /\ (Resolves(h) /\ Transient(dialog, next_scene'[h])) =>
                /\ pc'[h] = "on_enter"
                /\ Resolved(h).hooks = <<>> => data' = data
                /\ current_scene[h] # None =>
                      \E i \in 1..Len(NewCalls(h)) :
                          /\ NewCalls(h)[i].kind = "on_exit"
                          /\ NewCalls(h)[i].name = current_scene[h]
          /\ (pc[h] = "on_enter" /\ pc'[h] # "on_enter"
                 /\ Transient(dialog, next_scene[h])) =>
                /\ data' = data
                /\ pc'[h] = "done"
                /\ Kinds(NewCalls(h)) = ViewKinds
                /\ \A i \in 1..Len(NewCalls(h)) : NewCalls(h)[i].name = next_scene[h]
                /\ "set_current_scene" \notin Kinds(CallsOfPass(calls'[h], passes[h]))
          /\ (impl = "bases" /\ EndedAtTransient(h)) =>
                get_current_scene(data, sess[h]) = current_scene[h]]_vars

\* A wrong answer at the first question: the scene incorrect_answer was
\* shown and q1 is still the current scene of the session
C30_Witness ==
    \E h \in Handlers :
        /\ EndedAtTransient(h)
        /\ current_scene[h] = q1 /\ next_scene[h] = incorrect_answer
        /\ get_current_scene(data, sess[h]) = q1
        /\ Kinds(calls[h]) = {"on_exit"} \cup ViewKinds

\* ------------------------------------------------------------------------
\* C22: registering a scene that has no name or no namespace, or a router
\* that has no namespace, fails with an error and adds nothing to the
\* registry.  A name or namespace that is None or the empty string is none:
\* that is the test of BaseScene.register and of _DialogMeta, and the empty
\* string is the namespace of BaseDialog.Meta.
\* ------------------------------------------------------------------------
\* The step registers the scene o
RegistersScene(o) == phase = "meta_" \o o /\ phase' # phase

\* The step registers the router
RegistersRouter == phase = "meta_r" /\ phase' # phase

\* The registration of the step failed and left the registries as they were
Refused ==
    /\ phase' = "failed"
    /\ init_error' = "ValueError"
    /\ scenes_registry' = scenes_registry
    /\ routers_registry' = routers_registry

\* The part of C22 on scenes
C22_Scenes ==
    [][\A o \in Objs :
          (RegistersScene(o)
             /\ (~Truthy(scenes'[o].name) \/ ~Truthy(scenes'[o].namespace))) => Refused]_vars

\* The part of C22 on routers whose namespace is None
C22_RoutersNone == [][(RegistersRouter /\ router'.namespace = NoStr) => Refused]_vars

C22_RegisterNeedsNames ==
    [][/\ \A o \in Objs :
             (RegistersScene(o)
                /\ (~Truthy(scenes'[o].name) \/ ~Truthy(scenes'[o].namespace))) => Refused
       /\ (RegistersRouter /\ ~Truthy(router'.namespace)) => Refused]_vars

\* Registrations that were refused: a scene without a name, a scene without
\* a namespace, a router whose namespace is None
C22_RefusedScene ==
    /\ phase = "failed" /\ init_error = "ValueError"
    /\ \E o \in Objs : scenes[o].made /\ ~Truthy(scenes[o].name)

C22_RefusedRouter ==
    /\ phase = "failed" /\ init_error = "ValueError"
    /\ router.made /\ router.namespace = NoStr /\ routers_registry = {}

\* ------------------------------------------------------------------------
\* C23: no relation is evaluated by get_next_scene before the init pass has
\* resolved the targets of all relations of all registered scenes and
\* routers: Dialog.register attaches the event handlers after init has
\* completed.
\* ------------------------------------------------------------------------
\* The target of the relation of the scene b is known: a scene, or a
\* function that gives one
RelationResolved ==
    ("b" \in Registry(scenes_registry) /\ relation.made) =>
        (relation.to_scene # None \/ relation.get_scene_func # None)

\* The handlers are attached after Dialog.init returned, and no event is
\* handled before
C23_HandlersAfterInit ==
    [][/\ \A h \in Handlers : InFlight(h) => phase = "handling"
       /\ (phase' = "handling" /\ phase # "handling") =>
             (phase = "ready" /\ init_error = None)
       /\ phase = "handling" => phase' = "handling"]_vars

C23_InitBeforeEvaluation ==
    \A h \in Handlers :
        pc[h] = "get_next_scene" => (phase = "handling" /\ RelationResolved)

\* An event is about to be resolved after an init pass that resolved the
\* target of the relation
C23_EvaluatedAfterInit ==
    \E h \in Handlers :
        /\ pc[h] = "get_next_scene" /\ phase = "handling"
        /\ relation.to = ToStr(<<"a">>) /\ relation.to_scene = "a"

\* ------------------------------------------------------------------------
\* C21: an exception raised by a predicate, a hook or the view leaves
\* default_handler as it is, with no retry and no rollback: when an on_enter
\* hook or the view of the target raises, the history already holds the
\* target appended in that pass, and the remaining hooks and the view of
\* the pass are not executed.
\* ------------------------------------------------------------------------
\* The event of h ended by an exception
Raised(h) == pc[h] = "done" /\ result[h] \in Exceptions

\* The calls of the last pass of h
LastPass(h) == CallsOfPass(calls[h], passes[h])

C21_ExceptionEndsThePass ==
    \A h \in Handlers :
        Raised(h) =>
            /\ \A i \in 1..Len(calls[h]) : calls[h][i].pass <= passes[h]
            /\ result[h] # ExceptionOf("filter") =>
                  LET c == LastPass(h)
                      last == c[Len(c)] IN
                  /\ c # <<>>
                  /\ result[h] = ExceptionOf(last.kind)
                  /\ \A i \in 1..Len(c) : Rank(c[i].kind) <= Rank(last.kind)
                  /\ Cardinality({i \in 1..Len(c) : c[i].kind = last.kind}) = 1
                  /\ last.kind \in ViewKinds =>
                        /\ last.name = next_scene[h]
                        /\ must_set(dialog, current_scene[h], next_scene[h]) =>
                              /\ "set_current_scene" \in Kinds(c)
                              /\ get_scenes_history(data, sess[h]) # <<>>
                              /\ Last(get_scenes_history(data, sess[h])) = next_scene[h]
            /\ result[h] = ExceptionOf("filter") => LastPass(h) = <<>>

\* An on_enter hook of the end scene raised after the history got the scene:
\* the view of the end scene did not run
C21_Witness ==
    \E h \in Handlers :
        /\ Raised(h) /\ result[h] = ExceptionOf("on_enter")
        /\ current_scene[h] = q1 /\ next_scene[h] = end_scene
        /\ Last(get_scenes_history(data, sess[h])) = end_scene
        /\ "view" \notin Kinds(LastPass(h))

\* ------------------------------------------------------------------------
\* C24: BaseFiltersGroup.check calls the predicates of the chain of the
\* event type in declaration order; a mapping result, the empty mapping too,
\* is merged into the context, overwriting the keys the context has, and
\* the next predicate is called; the first result that is not a mapping and
\* is falsy makes check return rejected with no later predicate called; a
\* chain that is exhausted, or empty, returns accepted.
\* ------------------------------------------------------------------------
\* The result of the predicate called at entry e of the calls of a check
ResultAt(e) == run_filter(e.name, "x", [EmptyKwargs EXCEPT !.extra = e.seen])

\* The context new is old with the mapping m merged in: every item of m, and
\* the items of old whose key m has not
Merged(old, m, new) ==
    /\ m \subseteq new
    /\ \A p \in old : p[1] \notin Keys(m) => p \in new
    /\ \A p \in new : p \in m \/ (p \in old /\ p[1] \notin Keys(m))

\* The context after the call at entry e
After(e, new) ==
    IF ResultAt(e).dict THEN Merged(e.seen, ResultAt(e).items, new) ELSE new = e.seen

\* The call at entry e rejects: its result is not a mapping and is falsy
Rejects(e) == ~ResultAt(e).dict /\ ~ResultAt(e).val

C24_CheckInOrder ==
    checking.done =>
        LET fs == checking.filters_to_check[checking.event_type]
            res == checking.result
            n == Len(res.seen) IN
        /\ n <= Len(fs)
        /\ \A i \in 1..n : res.seen[i].name = fs[i]
        /\ n >= 1 => res.seen[1].seen = checking.kw.extra
        /\ \A i \in 1..(n - 1) :
              /\ ~Rejects(res.seen[i])
              /\ After(res.seen[i], res.seen[i + 1].seen)
        /\ n >= 1 => After(res.seen[n], res.kw.extra)
        /\ n = 0 => res.kw.extra = checking.kw.extra
        /\ ~res.ok <=> (n >= 1 /\ Rejects(res.seen[n]))
        /\ res.ok => n = Len(fs)
        /\ fs = <<>> => res.ok

\* A chain whose first predicate returns the empty mapping, whose second
\* overwrites the answer the context has and whose third rejects
C24_Witness ==
    /\ checking.done
    /\ checking.filters_to_check[checking.event_type]
          = <<"dict_empty", "dict_answer_5", "none">>
    /\ checking.kw.extra = {<<"answer", 4>>}
    /\ ~checking.result.ok
    /\ checking.result.kw.extra = {<<"answer", 5>>}

\* A chain whose second predicate rejects: the third is not called
C24_WitnessShortCircuit ==
    /\ checking.done
    /\ checking.filters_to_check[checking.event_type] = <<"true", "false", "true">>
    /\ ~checking.result.ok
    /\ Len(checking.result.seen) = 2

\* ------------------------------------------------------------------------
\* C31: a relation whose event types do not contain the type of the current
\* event is skipped: none of its predicates is evaluated, its target is not
\* resolved and its on_transition hooks do not run, for the relations of the
\* current scene and for those of the routers.  get_next_scene then gives
\* what it gives on the relations without the skipped ones: the same scene,
\* the same context, the same hooks, the same calls.
\* ------------------------------------------------------------------------
\* The relations of rels that take events of the type et
Matching(rels, et) == SelectSeq(rels, LAMBDA r : et \in r.event_types)

\* The relations of the current scene of the handler h
OwnRelations(h) == IF current_scene[h] # None THEN relations(current_scene[h]) ELSE <<>>

\* The relations of the routers
RoutersRelations == routers_relations(dialog, initialized_routers, 1)

\* The hooks of the relations that take events of the type et
HooksFor(rels, et) ==
    UNION {{rels[i].on_transition[j] : j \in 1..Len(rels[i].on_transition)} :
              i \in {n \in 1..Len(rels) : et \in rels[n].event_types}}

C31_OtherEventTypesSkipped ==
    \A h \in Handlers :
        LET et == event_type[h]
            own == OwnRelations(h)
            r == Resolved(h)
            left == scan(impl, own, et, text[h], PassKwargs(h)).kw IN
        /\ pc[h] = "get_next_scene" =>
              /\ scan(impl, own, et, text[h], PassKwargs(h))
                   = scan(impl, Matching(own, et), et, text[h], PassKwargs(h))
              /\ scan(impl, RoutersRelations, et, text[h], left)
                   = scan(impl, Matching(RoutersRelations, et), et, text[h], left)
              /\ \A n \in 1..Len(r.trace) : et \in r.trace[n].rel.event_types
              /\ \A j \in 1..Len(r.hooks) :
                    r.hooks[j] \in HooksFor(own \o RoutersRelations, et)
        /\ \A i \in 1..Len(calls[h]) :
              (pc[h] # "idle" /\ calls[h][i].kind = "on_transition") =>
                  \/ calls[h][i].name \in HooksFor(RoutersRelations, et)
                  \/ \E s \in Scenes : calls[h][i].name \in HooksFor(relations(s), et)

\* A message at the scene poll, whose first relation is for callback queries
\* and would accept: the second relation led to the end scene
C31_Witness ==
    \E h \in Handlers :
        /\ pc[h] = "done" /\ event_type[h] = "message" /\ passes[h] = 1
        /\ current_scene[h] = poll /\ next_scene[h] = end_scene
        /\ relations(poll)[1].event_types = {"callback_query"}
        /\ \E i \in 1..Len(calls[h]) : calls[h][i].name = "process_correct_answer"

\* A message the routers answer after the relation they hold for callback
\* queries, which accepts every event, was skipped
C31_WitnessRouter ==
    \E h \in Handlers :
        /\ pc[h] = "done" /\ event_type[h] = "message" /\ text[h] = "repeat"
        /\ current_scene[h] = poll /\ next_scene[h] = poll

\* ------------------------------------------------------------------------
\* C32: a call of a scene's view runs all the on_pre_view hooks in their
\* order, then the view function, then all the on_post_view hooks in their
\* order; the view function and the hooks before it are called with the
\* keywords of the call, the hooks after it with those keywords and the
\* view function's return value under the key view_result (which a hook
\* gets when its signature takes it), and the call returns that value.
\* ------------------------------------------------------------------------
NamesOf(c) == [i \in 1..Len(c) |-> c[i].name]

\* The hook function takes the keyword key
Takes(function, key) ==
    function = "takes_kwargs" \/ (function = "takes_result" /\ key = "view_result")
    \/ (function = "takes_answer" /\ key = "answer")

C32_ViewRunsHooksAround ==
    viewing.done =>
        LET c == viewing.calls
            n == Len(viewing.on_pre_view)
            m == Len(viewing.on_post_view) IN
        /\ Len(c) = n + 1 + m
        /\ NamesOf(SubSeq(c, 1, n)) = viewing.on_pre_view
        /\ \A i \in 1..n : c[i].kind = "on_pre_view"
        /\ c[n + 1].kind = "view" /\ c[n + 1].kwargs = viewing.kwargs
        /\ NamesOf(SubSeq(c, n + 2, n + 1 + m)) = viewing.on_post_view
        /\ \A i \in (n + 2)..(n + 1 + m) :
              /\ c[i].kind = "on_post_view"
              /\ Takes(c[i].name, "view_result") =>
                    /\ <<"view_result", viewing.returns>> \in c[i].kwargs
                    /\ \A p \in c[i].kwargs : p[1] = "view_result" => p[2] = viewing.returns
              /\ \A p \in viewing.kwargs :
                    (p[1] # "view_result" /\ Takes(c[i].name, p[1])) => p \in c[i].kwargs
        /\ \A i \in 1..n :
              \A p \in viewing.kwargs : Takes(c[i].name, p[1]) <=> p \in c[i].kwargs
        /\ \A i \in 1..n : c[i].kwargs \subseteq viewing.kwargs
        /\ viewing.result = viewing.returns

\* A view with two hooks before and two after it, called with a view_result
\* keyword of its caller's: the hooks after it got the value it returned
C32_Witness ==
    /\ viewing.done
    /\ viewing.on_pre_view = <<"takes_kwargs", "takes_answer">>
    /\ viewing.on_post_view = <<"takes_result", "takes_kwargs">>
    /\ viewing.returns = "sent"
    /\ <<"view_result", "stale">> \in viewing.kwargs
    /\ viewing.calls[4].kwargs = {<<"view_result", "sent">>}
    /\ viewing.result = "sent"

\* ------------------------------------------------------------------------
\* C33: get_previous_scene returns the registered scene named by the
\* second-to-last element of the session's history, and None when the
\* history has fewer than two elements.
\* ------------------------------------------------------------------------
\* The dispatcher calls the handler h, which reads the previous scene
Dispatched(h) == pc[h] = "idle" /\ pc'[h] = "get_current_scene"

C33_PreviousIsSecondToLast ==
    [][\A h \in Handlers :
          Dispatched(h) =>
              LET stored == data[sess'[h]] IN
              /\ Len(stored) < 2 => previous_scene'[h] = None
              /\ Len(stored) >= 2 =>
                    /\ previous_scene'[h] = stored[Len(stored) - 1]
                    /\ previous_scene'[h] \in Scenes]_vars

\* The handler read the previous scene of a history of three scenes
C33_Witness ==
    \E h \in Handlers :
        /\ pc[h] = "get_current_scene"
        /\ data[sess[h]] = <<start_scene, q1, end_scene>>
        /\ previous_scene[h] = q1

\* ------------------------------------------------------------------------
\* C34: the back pattern of the example, a router relation whose target is
\* the context's previous_scene and whose on_transition hook stores the
\* history without its last element.  On a history [..., P, C] of scenes
\* that can stay, an event this relation accepts leaves the history
\* [..., P], one element shorter and ending in P, and runs the on_enter
\* hooks and the view of P once.
\* ------------------------------------------------------------------------
\* The calls c are those of an event the back relation accepted
BackEventIn(c) ==
    /\ c # <<>>
    /\ c[1].kind = "on_transition" /\ c[1].name = "process_move_to_previous_scene"
    /\ c[1].pass = 1

\* The calls of c of the kind k for the scene s
CallsFor(c, k, s) == Cardinality({i \in 1..Len(c) : c[i].kind = k /\ c[i].name = s})

\* The steps of a back event of the handler h: get_next_scene drops the last
\* element and returns P; no later step of the event changes the history;
\* when the handler is done P was entered and viewed once.  With every = FALSE
\* this is said only for a scene P that is not transitional.
BackStep(h, every) ==
    LET stored == data[sess[h]]
        c == calls[h] IN
    /\ (/\ pc[h] = "get_next_scene" /\ passes[h] = 0 /\ pc'[h] # pc[h]
        /\ Len(stored) >= 2
        /\ Resolved(h).hooks = <<"process_move_to_previous_scene">>
        /\ every \/ ~is_transitional_scene(dialog, stored[Len(stored) - 1])) =>
           /\ data'[sess[h]] = ButLast(stored)
           /\ Last(data'[sess[h]]) = stored[Len(stored) - 1]
           /\ next_scene'[h] = stored[Len(stored) - 1]
    /\ (/\ BackEventIn(c) /\ pc[h] # "done"
        /\ every \/ ~is_transitional_scene(dialog, c[1].previous_scene)) =>
           /\ data'[sess[h]] = stored
           /\ pc'[h] = "done" =>
                 /\ CallsFor(calls'[h], "on_enter", c[1].previous_scene) = 1
                 /\ CallsFor(calls'[h], "view", c[1].previous_scene) = 1
                 /\ passes'[h] = 1

C34_BackPattern == [][\A h \in Handlers : BackStep(h, TRUE)]_vars

\* The same for a scene P at which the handler stops
C34_BackToSceneThatStops == [][\A h \in Handlers : BackStep(h, FALSE)]_vars

\* A back event on the history [start_scene, end_scene, q1] that left
\* [start_scene, end_scene]
C34_WitnessStops ==
    \E h \in Handlers :
        /\ pc[h] = "done" /\ BackEventIn(calls[h])
        /\ current_scene[h] = q1 /\ next_scene[h] = end_scene
        /\ data[sess[h]] = <<start_scene, end_scene>>

\* A back event on the history [start_scene, q1], the history the example
\* has at its first question: it is at q1 again
C34_WitnessBackToStart ==
    \E h \in Handlers :
        /\ pc[h] = "done" /\ BackEventIn(calls[h])
        /\ calls[h][1].previous_scene = start_scene
        /\ data[sess[h]] = <<start_scene, q1>>
        /\ passes[h] = 2

\* ------------------------------------------------------------------------
\* C35: when the handler reports an event as not handled (get_next_scene
\* returned None in some pass), processing the event has left the history
\* of the session unchanged and has run no on_exit hook, no on_enter hook
\* and no view, also when None was returned in a later pass, after a
\* transitional scene was entered.  The history is written by
\* set_current_scene and by hooks only.
\* ------------------------------------------------------------------------
\* The handler h has reported its event as not handled: its last call of
\* get_next_scene returned None
Unhandled(h) ==
    pc[h] = "done" /\ next_scene[h] = None /\ result[h] = skip_handler(impl)

C35_UnhandledChangesNothing ==
    \A h \in Handlers :
        Unhandled(h) =>
            \A i \in 1..Len(calls[h]) :
                calls[h][i].kind \notin {"on_exit", "on_enter", "view", "set_current_scene"}

\* The pass that returns None: it runs no hook and no view and writes no
\* history; when it is the first pass of the event nothing at all was run
C35_UnhandledPassChangesNothing ==
    [][\A h \in Handlers :
          (pc[h] = "get_next_scene" /\ pc'[h] = "done" /\ next_scene'[h] = None
             /\ result'[h] = skip_handler(impl)) =>
              /\ data' = data
              /\ calls'[h] = calls[h]
              /\ passes[h] = 0 => calls'[h] = <<>>]_vars

\* An event not handled in its first pass
C35_WitnessFirstPass ==
    \E h \in Handlers : Unhandled(h) /\ passes[h] = 1 /\ calls[h] = <<>>

\* An event reported as not handled in its second pass, after the scene
\* intro was stored as the current scene and viewed
C35_WitnessLaterPass ==
    \E h \in Handlers :
        /\ Unhandled(h) /\ passes[h] = 2
        /\ current_scene[h] = intro
        /\ data[sess[h]] = <<intro>>
        /\ \E i \in 1..Len(calls[h]) : calls[h][i].kind = "view" /\ calls[h][i].name = intro

\* ------------------------------------------------------------------------
\* C36: no scene name is stored twice in a row
\* ------------------------------------------------------------------------
NoTwoAdjacent(scene_ids) ==
    \A i \in 1..(Len(scene_ids) - 1) : scene_ids[i] # scene_ids[i + 1]

\* C36: starting from empty histories, whatever events the handlers process,
\* two of them at once on one session and the moves back included, no stored
\* history of a session holds the same scene name at two adjacent places.
C36_NoAdjacentDuplicates ==
    \A s \in Sessions : NoTwoAdjacent(data[s])

\* Two events of one session are in flight; one has read a history whose last
\* name is the scene it enters and writes it back as it is, after a move back
\* has shortened a history
C36_Witness ==
    \E h \in Handlers, g \in Handlers :
        /\ h # g
        /\ sess[h] = sess[g]
        /\ pc[h] = "update_data"
        /\ Len(scenes_history[h]) >= 2
        /\ Last(scenes_history[h]) = next_scene[h]
        /\ current_scene[h] # next_scene[h]
        /\ \E i \in 1..Len(calls[g]) :
              /\ calls[g][i].kind = "on_transition"
              /\ calls[g][i].name = "process_move_to_previous_scene"

\* ------------------------------------------------------------------------
\* C37: a resolver that returns no scene
\* ------------------------------------------------------------------------
\* The resolver of the relation rel finds no scene in the context kw
ResolvesToNone(rel, kw) ==
    /\ rel.to.kind = "func"
    /\ \/ rel.to.name = "previous" /\ kw.previous_scene = None
       \/ rel.to.name = "current" /\ kw.current_scene = None

\* Call i of the trace tr is the last predicate of the chain of its relation,
\* every predicate of the chain was called and passed, and the resolver of
\* the relation finds no scene
AcceptedWithoutTarget(tr, i, t, kw) ==
    LET rel == tr[i].rel
        n == Len(rel.filters) IN
    /\ tr[i].kind = "filter"
    /\ ResolvesToNone(rel, kw)
    /\ n >= 1 /\ i >= n
    /\ \A j \in 1..n :
          LET e == tr[i - n + j] IN
          /\ e.kind = "filter" /\ e.rel = rel /\ e.owner = tr[i].owner
          /\ e.name = rel.filters[j]
          /\ Passed(e, t, kw)

\* C37: in bases' engine, when the chain of a relation accepted the event and
\* the resolver of the relation returns no scene, get_next_scene calls
\* nothing more (no further relation, no hook) and the handler ends with the
\* AttributeError and no next scene; no on_transition hook has run and the
\* stored histories are as they were.
C37_NoTargetRaises ==
    [][\A h \in Handlers :
          (impl = "bases" /\ pc[h] = "get_next_scene" /\ pc'[h] # "get_next_scene") =>
              LET tr == Resolved(h).trace IN
              \A i \in 1..Len(tr) :
                  AcceptedWithoutTarget(tr, i, text[h], PassKwargs(h)) =>
                      /\ i = Len(tr)
                      /\ pc'[h] = "done"
                      /\ result'[h] = "AttributeError"
                      /\ next_scene'[h] = None
                      /\ calls'[h] = calls[h]
                      /\ log'[h] = log[h]
                      /\ data' = data]_vars

\* The router's back relation took the event of a session whose history has
\* one name: the handler ended with the error, no hook ran and the history
\* has its one name
C37_Witness ==
    \E h \in Handlers :
        /\ impl = "bases" /\ dialog = "quiz" /\ pc[h] = "done"
        /\ text[h] = "back" /\ event_type[h] = "message"
        /\ current_scene[h] # None /\ previous_scene[h] = None
        /\ passes[h] = 1
        /\ result[h] = "AttributeError"
        /\ Len(data[sess[h]]) = 1
        /\ calls[h] = <<>>

\* ------------------------------------------------------------------------
\* C38: the keys a rejected relation merged stay in the context
\* ------------------------------------------------------------------------
\* Call i of the trace tr is of a relation that get_next_scene passed over:
\* no on_transition hook was called for it
PassedOver(tr, i) ==
    \A j \in 1..Len(tr) :
        (tr[j].rel = tr[i].rel /\ tr[j].owner = tr[i].owner) => tr[j].kind # "on_transition"

\* A call of the model's calls is made with the context kw
MadeWith(kw, keys) == keys \subseteq Keys(kw.extra)

\* C38: in bases' engine the keys of a mapping that a predicate of a relation
\* returned stay in the context when the relation is passed over: every call
\* get_next_scene makes afterwards (predicates and entry filters of the
\* relations that follow, the hooks of the relation chosen) is made with
\* them, the context the handler goes on with holds them, and the context
\* keeps its keys until the event is done, so that the on_enter hooks and
\* the view of the scene entered are called with them.
C38_MergedKeysStay ==
    [][\A h \in Handlers :
          /\ (impl = "bases" /\ pc[h] = "get_next_scene" /\ pc'[h] # "get_next_scene") =>
                LET tr == Resolved(h).trace IN
                \A i \in 1..Len(tr) :
                    (tr[i].kind = "filter" /\ PassedOver(tr, i)) =>
                        /\ \A j \in (i + 1)..Len(tr) :
                              Keys(MappingOf(tr[i].name)) \subseteq Keys(tr[j].seen)
                        /\ MadeWith(handler_kwargs'[h], Keys(MappingOf(tr[i].name)))
          /\ (impl = "bases" /\ pc[h] # "idle" /\ pc'[h] # "idle") =>
                MadeWith(handler_kwargs'[h], Keys(handler_kwargs[h].extra))]_vars

\* In the guarded quiz at q2 the text "score" was sent: the first relation
\* of q2 merged the answer and q3's entry filter rejected, the router's
\* start relation merged its key and its last predicate rejected, and the
\* score scene was entered and viewed with both keys in the context
C38_Witness ==
    \E h \in Handlers :
        /\ impl = "bases" /\ dialog = "guarded" /\ pc[h] = "done"
        /\ current_scene[h] = q2 /\ text[h] = "score"
        /\ next_scene[h] = score
        /\ {"answer", "123"} \subseteq Keys(handler_kwargs[h].extra)
        /\ \E i \in 1..Len(calls[h]) : calls[h][i].kind = "view" /\ calls[h][i].name = score

\* ------------------------------------------------------------------------
\* C39: the histories of the other sessions
\* ------------------------------------------------------------------------
\* The step is a step of the handler h
StepOf(h) == pc'[h] # pc[h]

\* The histories of the sessions other than s are as they were
OthersUnchanged(s) == \A o \in Sessions : o # s => data'[o] = data[o]

\* C39: no step of the handler of an event of a session changes the stored
\* history of another session, whatever events of other sessions are in
\* flight, for both storages.
C39_OtherSessionsUntouched ==
    [][\A h \in Handlers : StepOf(h) => OthersUnchanged(sess[h])]_vars

\* C39 on the shared storage: no step of the handler of an event of a session
\* changes the stored history of another session.
C39_SharedStorageIsolated ==
    [][\A h \in Handlers : (impl = "bases" /\ StepOf(h)) => OthersUnchanged(sess[h])]_vars

\* Events of both sessions are in flight on the shared storage and both
\* sessions have a history
C39_WitnessShared ==
    /\ impl = "bases"
    /\ \A s \in Sessions : data[s] # <<>>
    /\ \E h \in Handlers, g \in Handlers :
          /\ sess[h] # sess[g]
          /\ pc[h] \notin {"idle", "done"} /\ pc[g] \notin {"idle", "done"}

\* ------------------------------------------------------------------------
\* C40: init_scene on names, and a second time
\* ------------------------------------------------------------------------
\* Dialog.init called once more after it returned (a program that calls
\* Dialog.init and then Dialog.register): the relation of the scene b is
\* given to init_scene a second time
DialogInitAgain ==
    /\ phase = "ready"
    /\ "b" \in Registry(scenes_registry)
    /\ LET r == init_scene(relation, scenes["b"].namespace, scenes_registry,
                           initialized_dialogs, scenes) IN
       /\ relation' = r.rel
       /\ init_error' = r.error
       /\ phase' = (IF r.error = None THEN "ready_again" ELSE "failed")
    /\ UNCHANGED <<scenes, scenes_registry, initialized_dialogs, router_vars, handler_vars>>

NextReinit == NextDeclare \/ DialogInitAgain

SpecReinit == InitDeclare /\ [][NextReinit]_vars

\* The relation is made with a name: a string, or a forward reference
\* without a class
NamedTarget(rel) ==
    rel.to.kind = "str" \/ (rel.to.kind = "future" /\ rel.to.class_name = None)

\* The name with the namespace before it when it has no dot
Qualify(namespace, name) == IF Len(name) = 1 THEN Fmt(namespace) \o name ELSE name

\* The first call of init_scene, on the relation of the scene b
FirstInit == phase = "declared" /\ phase' # "declared" /\ "b" \in Registry(scenes_registry)

\* The second call of init_scene
SecondInit == phase = "ready" /\ phase' \in {"ready_again", "failed"}

\* init_scene took the name n: the relation holds the name qualified and the
\* scene registered under it, or the name is not registered and the call
\* raised
QualifiedAndResolved(n) ==
    LET name == Qualify(scenes["b"].namespace, n) IN
    /\ relation'.to_scene_name = name
    /\ IF name \in DOMAIN scenes_registry
       THEN phase' = "ready" /\ relation'.to_scene = scenes_registry[name]
       ELSE phase' = "failed" /\ init_error' = "RuntimeError"

\* The second call left the target scene and the target name as they were
SameTarget ==
    /\ phase' = "ready_again"
    /\ relation'.to_scene = relation.to_scene
    /\ relation'.to_scene_name = relation.to_scene_name

\* C40: init_scene puts the namespace of the owning scene before the name of
\* a string or class-less forward reference target that has no dot, leaves a
\* name with a dot as it is and resolves the name in the registry; a second
\* call on a relation that is resolved leaves its target scene and its target
\* name as they are; a relation with a resolver function is left untouched by
\* both calls.
C40_InitScene ==
    [][/\ (FirstInit /\ NamedTarget(relation)) => QualifiedAndResolved(relation.to.str)
       /\ (SecondInit /\ relation.to_scene # None) => SameTarget
       /\ ((FirstInit \/ SecondInit) /\ relation.to.kind = "callable") =>
              (relation' = relation /\ init_error' = None)]_vars

\* C40 for the names that are not empty and the scenes that the registry
\* holds under their full name
C40_InitSceneOnRegisteredNames ==
    [][/\ (FirstInit /\ NamedTarget(relation) /\ relation.to.str # <<"">>) =>
              QualifiedAndResolved(relation.to.str)
       /\ (/\ SecondInit
           /\ relation.to_scene # None
           /\ relation.to_scene_name \in DOMAIN scenes_registry
           /\ scenes_registry[relation.to_scene_name] = relation.to_scene) => SameTarget
       /\ ((FirstInit \/ SecondInit) /\ relation.to.kind = "callable") =>
              (relation' = relation /\ init_error' = None)]_vars

\* The relation was made with the name of a registered scene without a dot
\* and init_scene ran twice on it
C40_WitnessTwice ==
    /\ phase = "ready_again"
    /\ relation.to = ToStr(<<"a">>)
    /\ relation.to_scene = "a"
    /\ relation.to_scene_name = <<"D", "a">>

\* The relation was made with a forward reference to the attribute a of the
\* class; the second call took the scene the registry holds under a's name
C40_WitnessOtherScene ==
    /\ phase = "ready_again"
    /\ relation.to = ToFuture("D", <<"a">>)
    /\ relation.to_scene = "b"

====
